---------------------------- MODULE Spec2Model ----------------------------
(***************************************************************************)
(* Deliberation orchestrator of the meeting service (package meeting):     *)
(* smart mode (RunSmartMeetingWithCallback) and panel mode                 *)
(* (SendMessage / runAgentsParallel).                                      *)
(*                                                                         *)
(* Strings that the code builds by concatenation are sequences of string   *)
(* tokens; a context.Context is the reason for which its Done channel is   *)
(* closed ("live" while it is open).                                       *)
(***************************************************************************)
EXTENDS Naturals, Sequences, FiniteSets

(* ------------------------------ bounds -------------------------------- *)

\* longest list of ids the moderator's decision may carry
MaxSel == 3

\* largest number of agents addressed in one panel call
MaxPanel == 3
\* number of SendMeetingMessage invocations
MaxCalls == 3

\* number of data lines one event stream carries
MaxData == 4

\* number of events one agent run receives
MaxEvents == 3

\* longest list of contents one request carries
MaxContents == 3

\* number of agent steps whose deadline scopes are followed
MaxScopes == 2

\* last instant the clock reaches, in units of 10 s
MaxClock == 32

(* --------------------------- input domains ---------------------------- *)

\* agent ids the moderator may name; "a3" is missing from the short roster
AgentIDs == {"a1", "a2", "a3"}

\* req.AllAgents of a call (models.AgentConfig values, identified by ID)
Rosters == {<< >>, <<"a1", "a2">>, <<"a1", "a2", "a3">>}

\* texts successful agent runs return
Contents == {"x1", "x2", "x3", "x4"}

\* the text agent `id` answers with when its run succeeds
TextOf(id) ==
    CASE id = "a1" -> "x1" [] id = "a2" -> "x2" [] id = "a3" -> "x3" [] OTHER -> "x4"

\* text moderator.Summarize may return with a nil error
Summaries == {"", "sum"}

\* memoryManager.BuildContext result; "nomgr" stands for s.memoryManager == nil,
\* "nostock" for a manager whose GetOrCreate gave no stockMemory
MemoryOptions == {"nomgr", "nostock", "", "MEM"}

\* result of one bounded child step
Outcomes == {"ok", "deadline", "error"}

RECURSIVE SeqsUpTo(_, _)
SeqsUpTo(S, n) ==
    IF n = 0 THEN {<< >>}
    ELSE LET shorter == SeqsUpTo(S, n - 1)
         IN  shorter \cup {Append(s, x) : s \in {t \in shorter : Len(t) = n - 1}, x \in S}

\* req.StockCode values (topics)
Topics == {"sh600519", "sz000001"}

\* SendMeetingMessage invocations, each on its own goroutine
Calls == 1..MaxCalls

\* the ChatRequest fields a panel call hands to each agent's run
ChatRequest(stock, query, replyContent, position) ==
    [Stock |-> stock, Query |-> query, ReplyContent |-> replyContent,
     Position |-> position]

NoRequest == ChatRequest("", "", "", "nil")

PanelRequests == {ChatRequest("s1", "q1", "", "nil"),
                  ChatRequest("s1", "q2", "re", "p1")}

\* lastOp before any App operation has run
NoOp == [op |-> "none", topic |-> "none", cancels |-> 0, repeat |-> FALSE]

\* content block indices of one streamed message
Indices == {0, 1}

\* ids of tool_use blocks
ToolIDs == {"toolu_A", "toolu_B"}

\* the tool name a tool_use block with this id carries
NameOf(id) == IF id = "toolu_A" THEN "get_stock" ELSE "get_news"

\* text_delta fragments
TextFragments == {"Hel", "lo"}

\* thinking_delta fragments
ThinkingFragments == {"hmm"}

\* input_json_delta fragments, as character sequences: {"sym  bol":"s  h600519"}
Frag1 == <<"{", "\"", "s", "y", "m">>
Frag2 == <<"b", "o", "l", "\"", ":", "\"", "s">>
Frag3 == <<"h", "6", "0", "0", "5", "1", "9", "\"", "}">>
JSONFragments == {Frag1, Frag2, Frag3}

\* stop_reason values of message_delta; "" is an absent stop reason
StopReasons == {"", "end_turn", "max_tokens", "refusal"}

\* event names after "event: "
EventTypes == {"message_start", "content_block_start", "content_block_delta",
               "message_delta", "error", "ping", "message_stop",
               "content_block_stop"}

\* a nil *toolCallBuilder / an absent map entry
NoBuilder == [present |-> FALSE, id |-> "", name |-> "", args |-> << >>]

\* a nil usageMetadata
NilUsage == [set |-> FALSE, prompt |-> 0, candidates |-> 0, total |-> 0]

\* a nil *genai.Content
NilContent == [role |-> "nil", parts |-> << >>]

\* a genai.Part: text (visible or thought) or a function call
GenaiPart(text, thought, call) == [text |-> text, thought |-> thought, call |-> call]

\* part lists of one genai.Content; a part with no text and no call is
\* dropped by toContentBlocks
PartLists ==
    {<< >>,
     <<GenaiPart("", FALSE, "")>>,
     <<GenaiPart("p1", FALSE, "")>>,
     <<GenaiPart("p2", TRUE, ""), GenaiPart("p3", FALSE, "")>>,
     <<GenaiPart("", FALSE, "toolu_A")>>}

\* the entries of req.Contents
GenaiContents ==
    {NilContent} \cup [role : {"user", "model", "tool"}, parts : PartLists]

\* timeouts, in units of 10 s
MeetingTimeout == 30
AgentTimeout == 9
ModeratorTimeout == 6
ModelCreationTimeout == 1

\* the deadline of a context that has none
NoDeadline == 1000

\* a context that is not created yet
NoScope == [kind |-> "none", parent |-> "none", opened |-> 0, deadline |-> 0,
            err |-> "none", running |-> FALSE]

\* observed before any line is read
NothingObserved == [malformed |-> FALSE, stop |-> "", prompt |-> FALSE, output |-> FALSE]

\* rret before the runner has returned
NoRunResult == [text |-> << >>, err |-> "pending"]

(* ------------------------------- state -------------------------------- *)

VARIABLES
    pc,              \* position of RunSmartMeetingWithCallback
    aiConfig,        \* "nil" or "set"
    AllAgents,       \* req.AllAgents
    hasCallbacks,    \* respCallback and progressCallback are non-nil
    memoryContext,   \* memoryContext string, or "nomgr"
    meetingCtx,      \* "none" | "live" | "deadline" | "cancelled"
    selectedAgents,  \* result of filterAgentsOrdered
    idx,             \* loop index i (1-based) of the agent loop
    responses,       \* the responses slice
    history,         \* the history slice
    ret,             \* the returned ([]ChatResponse, error)
    respLog,         \* payloads delivered to respCallback
    progressLog,     \* events delivered to progressCallback
    steps,           \* agent steps started: id, previousContext, outcome
    summaryStep,     \* the Summarize step: ctx at start, outcome
    analyzeStep,     \* the Analyze step: outcome, decision.Selected
    expiredAt,       \* where the deliberation scope closed
    memoryTask,      \* background save goroutine: "none" | "started" | "saved" | "failed"
    ppc,             \* position of SendMessage / runAgentsParallel
    panelAgents,     \* req.Agents of the panel call
    parallelCtx,     \* "none" | "live" | "deadline" | "cancelled"
    gpc,             \* position of each agent goroutine
    mu,              \* holder of the mutex, 0 when free
    presponses,      \* responses slice of runAgentsParallel
    wg,              \* WaitGroup counter
    pret,            \* the returned ([]ChatResponse, error) of the panel call
    finished,        \* order in which agent runs ended
    panelReq,        \* req of the panel call: Stock, Query, ReplyContent, Position
    inFlight,        \* goroutines whose run was in progress when parallelCtx expired
    meetingCancels,  \* App.meetingCancels: topic -> registering call, 0 = no entry
    callPc,          \* position of each SendMeetingMessage invocation
    callTopic,       \* req.StockCode of each invocation
    callCtx,         \* each invocation's meetingCtx: "none" | "live" | "cancelled"
    lastOp,          \* the App operation that took the last step
    spc,             \* position of generateStream / processStream
    currentEventType,\* currentEventType of the scanner loop
    textContent,     \* textContent buffer
    thinkingContent, \* thinkingContent buffer
    toolCallsMap,    \* block index -> toolCallBuilder
    blockTypes,      \* block index -> content block type
    usageMetadata,   \* usageMetadata pointer
    finishReason,    \* finishReason
    emitted,         \* items the consumer received through yield
    consumerStopped, \* a yield call has returned false
    nData,           \* data lines handled so far
    wireArgs,        \* per index, every input_json_delta fragment on the wire
    toolStarts,      \* per index, the ids of the tool_use blocks started
    early,           \* indices that got a fragment before any tool_use start
    mpc,             \* position of toAnthropicMessages / mergeConsecutiveMessages
    raw,             \* the raw message list handed to the merge
    merged,          \* the merged slice; the returned list once mpc = "done"
    mi,              \* index of the message the merge loop is at
    observed,        \* what the wire has carried: last stop_reason, usage seen
    rpc,             \* position of runSingleAgentWithHistory
    hasProgress,     \* progressCallback is non-nil
    runContent,      \* the content variable of runSingleAgentWithHistory
    runLog,          \* events delivered to the runner's progressCallback
    received,        \* events r.Run has handed to the runner's loop
    rret,            \* the returned (string, error) of the runner
    clock,           \* the time, in units of 10 s
    callerCtx,       \* the ctx argument of the call: "live" | "cancelled"
    deliberation,    \* meetingCtx / parallelCtx: parent, deadline, err
    childCtx,        \* modelCtx, moderatorCtx, agentCtx, summaryCtx
    scopePc          \* position of the call in its sequence of scopes

smartVars == <<pc, aiConfig, AllAgents, hasCallbacks, memoryContext, meetingCtx,
               selectedAgents, idx, responses, history, ret, respLog,
               progressLog, steps, summaryStep, analyzeStep, expiredAt,
               memoryTask>>

panelVars == <<ppc, panelAgents, parallelCtx, gpc, mu, presponses, wg, pret,
               finished, panelReq, inFlight>>

appVars == <<meetingCancels, callPc, callTopic, callCtx, lastOp>>

streamVars == <<spc, currentEventType, textContent, thinkingContent,
                toolCallsMap, blockTypes, usageMetadata, finishReason, emitted,
                consumerStopped, nData, wireArgs, toolStarts, early, observed>>

mergeVars == <<mpc, raw, merged, mi>>

runnerVars == <<rpc, hasProgress, runContent, runLog, received, rret>>

scopeVars == <<clock, callerCtx, deliberation, childCtx, scopePc>>

vars == <<smartVars, panelVars, appVars, streamVars, mergeVars, runnerVars,
          scopeVars>>

(* ------------------------- errors and records ------------------------- *)

ErrMeetingTimeout == "ErrMeetingTimeout"
ErrModeratorTimeout == "ErrModeratorTimeout"
ErrNoAIConfig == "ErrNoAIConfig"
ErrNoAgents == "ErrNoAgents"
ErrCreateModel == "create model error"
ErrAnalyze == "moderator analyze error"
NoError == "nil"

NotReturned == [responses |-> << >>, err |-> "pending"]

AgentName(id) == CASE id = "a1" -> "n1" [] id = "a2" -> "n2" [] OTHER -> "n3"

AgentRole(id) == CASE id = "a1" -> "r1" [] id = "a2" -> "r2" [] OTHER -> "r3"

ChatResponse(id, role, content, round, kind) ==
    [AgentID |-> id, Role |-> role, Content |-> content, Round |-> round,
     MsgType |-> kind]

ProgressEvent(type, id) == [Type |-> type, AgentID |-> id]

DiscussionEntry(id, content) ==
    [Round |-> 1, AgentID |-> id, AgentName |-> AgentName(id),
     Role |-> AgentRole(id), Content |-> content]

(* --------------------------- pure functions --------------------------- *)

\* filterAgentsOrdered: the ids of `ids` that the roster knows, in the order of `ids`
RECURSIVE filterAgentsOrdered(_, _)
filterAgentsOrdered(all, ids) ==
    IF ids = << >> THEN << >>
    ELSE LET agentMap == {all[k] : k \in 1..Len(all)}
             rest == filterAgentsOrdered(all, Tail(ids))
         IN  IF Head(ids) \in agentMap THEN <<Head(ids)>> \o rest ELSE rest

\* one "- name（role）：content\n\n" line of buildPreviousContext
ContextLine(entry) ==
    <<"- ", entry.AgentName, "(", entry.Role, "):", entry.Content, "\n\n">>

RECURSIVE ContextLines(_)
ContextLines(h) ==
    IF h = << >> THEN << >> ELSE ContextLine(Head(h)) \o ContextLines(Tail(h))

\* buildPreviousContext that stops before the last entry
buildPreviousContext_DropsLast(h) ==
    IF Len(h) = 0 THEN << >> ELSE <<"HEADER\n">> \o ContextLines(SubSeq(h, 1, Len(h) - 1))

buildPreviousContext(h) ==
    IF Len(h) = 0 THEN << >> ELSE <<"HEADER\n">> \o ContextLines(h)

\* previousContext handed to runSingleAgentWithHistory
PreviousContext(mem, h) ==
    IF mem \notin {"", "nomgr", "nostock"}
    THEN <<mem, "\n">> \o buildPreviousContext(h)
    ELSE buildPreviousContext(h)

\* delivery to a callback that may be nil
Deliver(log, item) == IF hasCallbacks THEN Append(log, item) ELSE log

(* ------------------- RunSmartMeetingWithCallback ---------------------- *)

NoExpiry == [pc |-> "never", idx |-> 0, n |-> 0]

NoStep == [ctxAtStart |-> "none", outcome |-> "none", text |-> ""]

NoAnalyze == [outcome |-> "none", selected |-> << >>]

Opening == ChatResponse("moderator", "host", "opening", 0, "opening")

InFlight == pc \in {"create_model", "analyze", "loop", "agent", "summarize"}

\* `return rs, e`
Return(rs, e) ==
    /\ pc' = "returned"
    /\ ret' = [responses |-> rs, err |-> e]

\* entry: the two configuration checks, then context.WithTimeout(ctx, MeetingTimeout)
Enter(cfg, roster, cbs, mem) ==
    /\ pc = "idle"
    /\ aiConfig' = cfg
    /\ AllAgents' = roster
    /\ hasCallbacks' = cbs
    /\ memoryContext' = mem
    /\ IF cfg = "nil"
       THEN Return(<< >>, ErrNoAIConfig) /\ UNCHANGED meetingCtx
       ELSE IF Len(roster) = 0
            THEN Return(<< >>, ErrNoAgents) /\ UNCHANGED meetingCtx
            ELSE pc' = "create_model" /\ meetingCtx' = "live" /\ UNCHANGED ret
    /\ UNCHANGED <<selectedAgents, idx, responses, history, respLog,
                   progressLog, steps, summaryStep, analyzeStep, expiredAt,
                   memoryTask>>

\* CreateModel under modelCtx, then the moderator's agent_start event and
\* the start of moderator.Analyze
CreateModel(ok) ==
    /\ pc = "create_model"
    /\ IF ~ok
       THEN Return(<< >>, ErrCreateModel) /\ UNCHANGED <<progressLog, analyzeStep>>
       ELSE /\ pc' = "analyze"
            /\ progressLog' = Deliver(progressLog, ProgressEvent("agent_start", "moderator"))
            /\ analyzeStep' = [analyzeStep EXCEPT !.outcome = "running"]
            /\ UNCHANGED ret
    /\ UNCHANGED <<aiConfig, AllAgents, hasCallbacks, memoryContext, meetingCtx,
                   selectedAgents, idx, responses, history, respLog, steps,
                   summaryStep, expiredAt, memoryTask>>

\* AnalyzeFailed with the deadline case folded into the generic error
AnalyzeFailed_Generic(outcome) ==
    /\ pc = "analyze"
    /\ outcome \in {"deadline", "error"}
    /\ progressLog' = Deliver(progressLog, ProgressEvent("agent_done", "moderator"))
    /\ analyzeStep' = [analyzeStep EXCEPT !.outcome = outcome]
    /\ Return(<< >>, ErrAnalyze)
    /\ UNCHANGED <<aiConfig, AllAgents, hasCallbacks, memoryContext, meetingCtx,
                   selectedAgents, idx, responses, history, respLog, steps,
                   summaryStep, expiredAt, memoryTask>>

\* moderator.Analyze returned an error
AnalyzeFailed(outcome) ==
    /\ pc = "analyze"
    /\ outcome \in {"deadline", "error"}
    /\ progressLog' = Deliver(progressLog, ProgressEvent("agent_done", "moderator"))
    /\ analyzeStep' = [analyzeStep EXCEPT !.outcome = outcome]
    /\ IF outcome = "deadline"
       THEN Return(<< >>, ErrModeratorTimeout)
       ELSE Return(<< >>, ErrAnalyze)
    /\ UNCHANGED <<aiConfig, AllAgents, hasCallbacks, memoryContext, meetingCtx,
                   selectedAgents, idx, responses, history, respLog, steps,
                   summaryStep, expiredAt, memoryTask>>

\* moderator.Analyze returned a decision: opening utterance, callback,
\* filterAgentsOrdered, early return on an empty selection
AnalyzeSucceeded(selected) ==
    /\ pc = "analyze"
    /\ progressLog' = Deliver(progressLog, ProgressEvent("agent_done", "moderator"))
    /\ analyzeStep' = [outcome |-> "ok", selected |-> selected]
    /\ responses' = Append(responses, Opening)
    /\ respLog' = Deliver(respLog, Opening)
    /\ selectedAgents' = filterAgentsOrdered(AllAgents, selected)
    /\ IF Len(selectedAgents') = 0
       THEN Return(responses', NoError) /\ UNCHANGED idx
       ELSE pc' = "loop" /\ idx' = 1 /\ UNCHANGED ret
    /\ UNCHANGED <<aiConfig, AllAgents, hasCallbacks, memoryContext, meetingCtx,
                   history, steps, summaryStep, expiredAt, memoryTask>>

\* LoopTimeout that drops the partial transcript: `return nil, ErrMeetingTimeout`
LoopTimeout_Nil ==
    /\ pc = "loop"
    /\ idx <= Len(selectedAgents)
    /\ meetingCtx # "live"
    /\ Return(<< >>, ErrMeetingTimeout)
    /\ UNCHANGED <<aiConfig, AllAgents, hasCallbacks, memoryContext, meetingCtx,
                   selectedAgents, idx, responses, history, respLog,
                   progressLog, steps, summaryStep, analyzeStep, expiredAt,
                   memoryTask>>

\* loop head with meetingCtx.Done() closed
LoopTimeout ==
    /\ pc = "loop"
    /\ idx <= Len(selectedAgents)
    /\ meetingCtx # "live"
    /\ Return(responses, ErrMeetingTimeout)
    /\ UNCHANGED <<aiConfig, AllAgents, hasCallbacks, memoryContext, meetingCtx,
                   selectedAgents, idx, responses, history, respLog,
                   progressLog, steps, summaryStep, analyzeStep, expiredAt,
                   memoryTask>>

\* loop head with the scope open: agent_start, buildPreviousContext, and
\* the start of runSingleAgentWithHistory under agentCtx
AgentStart ==
    /\ pc = "loop"
    /\ idx <= Len(selectedAgents)
    /\ meetingCtx = "live"
    /\ progressLog' = Deliver(progressLog, ProgressEvent("agent_start", selectedAgents[idx]))
    /\ steps' = Append(steps, [id |-> selectedAgents[idx],
                               previousContext |-> PreviousContext(memoryContext, history),
                               outcome |-> "running",
                               content |-> ""])
    /\ pc' = "agent"
    /\ UNCHANGED <<aiConfig, AllAgents, hasCallbacks, memoryContext, meetingCtx,
                   selectedAgents, idx, responses, history, ret, respLog,
                   summaryStep, analyzeStep, expiredAt, memoryTask>>

\* AgentFailed that skips the agent_done event
AgentFailed_NoDone(outcome) ==
    /\ pc = "agent"
    /\ outcome \in {"deadline", "error"}
    /\ steps' = [steps EXCEPT ![Len(steps)].outcome = outcome]
    /\ idx' = idx + 1
    /\ pc' = "loop"
    /\ UNCHANGED <<aiConfig, AllAgents, hasCallbacks, memoryContext, meetingCtx,
                   selectedAgents, responses, history, ret, respLog, progressLog,
                   summaryStep, analyzeStep, expiredAt, memoryTask>>

\* AgentFailed that returns the error instead of `continue`
AgentFailed_Aborts(outcome) ==
    /\ pc = "agent"
    /\ outcome \in {"deadline", "error"}
    /\ progressLog' = Deliver(progressLog, ProgressEvent("agent_done", selectedAgents[idx]))
    /\ steps' = [steps EXCEPT ![Len(steps)].outcome = outcome]
    /\ Return(responses, outcome)
    /\ UNCHANGED <<aiConfig, AllAgents, hasCallbacks, memoryContext, meetingCtx,
                   selectedAgents, idx, responses, history, respLog,
                   summaryStep, analyzeStep, expiredAt, memoryTask>>

\* runSingleAgentWithHistory returned an error: agent_done, log, continue
AgentFailed(outcome) ==
    /\ pc = "agent"
    /\ outcome \in {"deadline", "error"}
    /\ progressLog' = Deliver(progressLog, ProgressEvent("agent_done", selectedAgents[idx]))
    /\ steps' = [steps EXCEPT ![Len(steps)].outcome = outcome]
    /\ idx' = idx + 1
    /\ pc' = "loop"
    /\ UNCHANGED <<aiConfig, AllAgents, hasCallbacks, memoryContext, meetingCtx,
                   selectedAgents, responses, history, ret, respLog,
                   summaryStep, analyzeStep, expiredAt, memoryTask>>

\* AgentSucceeded that puts the opinion in front of the transcript
AgentSucceeded_Prepends(content) ==
    /\ pc = "agent"
    /\ LET id == selectedAgents[idx]
           resp == ChatResponse(id, AgentRole(id), content, 1, "opinion")
       IN  /\ progressLog' = Deliver(progressLog, ProgressEvent("agent_done", id))
           /\ responses' = <<resp>> \o responses
           /\ respLog' = Deliver(respLog, resp)
           /\ history' = Append(history, DiscussionEntry(id, content))
    /\ steps' = [steps EXCEPT ![Len(steps)].outcome = "ok",
                              ![Len(steps)].content = content]
    /\ idx' = idx + 1
    /\ pc' = "loop"
    /\ UNCHANGED <<aiConfig, AllAgents, hasCallbacks, memoryContext, meetingCtx,
                   selectedAgents, ret, summaryStep, analyzeStep, expiredAt,
                   memoryTask>>

\* runSingleAgentWithHistory returned content: agent_done, append the
\* opinion, callback, extend history
AgentSucceeded(content) ==
    /\ pc = "agent"
    /\ LET id == selectedAgents[idx]
           resp == ChatResponse(id, AgentRole(id), content, 1, "opinion")
       IN  /\ progressLog' = Deliver(progressLog, ProgressEvent("agent_done", id))
           /\ responses' = Append(responses, resp)
           /\ respLog' = Deliver(respLog, resp)
           /\ history' = Append(history, DiscussionEntry(id, content))
    /\ steps' = [steps EXCEPT ![Len(steps)].outcome = "ok",
                              ![Len(steps)].content = content]
    /\ idx' = idx + 1
    /\ pc' = "loop"
    /\ UNCHANGED <<aiConfig, AllAgents, hasCallbacks, memoryContext, meetingCtx,
                   selectedAgents, ret, summaryStep, analyzeStep, expiredAt,
                   memoryTask>>

\* loop exhausted: the moderator's agent_start and the start of
\* moderator.Summarize under summaryCtx
SummarizeStart ==
    /\ pc = "loop"
    /\ idx > Len(selectedAgents)
    /\ progressLog' = Deliver(progressLog, ProgressEvent("agent_start", "moderator"))
    /\ summaryStep' = [ctxAtStart |-> meetingCtx, outcome |-> "running", text |-> ""]
    /\ pc' = "summarize"
    /\ UNCHANGED <<aiConfig, AllAgents, hasCallbacks, memoryContext, meetingCtx,
                   selectedAgents, idx, responses, history, ret, respLog, steps,
                   analyzeStep, expiredAt, memoryTask>>

\* outcomes moderator.Summarize can have: a call made on a closed scope fails
SummarizeOutcomes ==
    IF summaryStep.ctxAtStart = "live" THEN Outcomes
    ELSE IF summaryStep.ctxAtStart = "deadline" THEN {"deadline"}
    ELSE {"error"}

\* SummarizeFailed that hands the failure to the caller
SummarizeFailed_Propagates(outcome) ==
    /\ pc = "summarize"
    /\ outcome \in {"deadline", "error"}
    /\ outcome \in SummarizeOutcomes
    /\ progressLog' = Deliver(progressLog, ProgressEvent("agent_done", "moderator"))
    /\ summaryStep' = [summaryStep EXCEPT !.outcome = outcome]
    /\ Return(responses, ErrModeratorTimeout)
    /\ UNCHANGED <<aiConfig, AllAgents, hasCallbacks, memoryContext, meetingCtx,
                   selectedAgents, idx, responses, history, respLog, steps,
                   analyzeStep, expiredAt, memoryTask>>

\* moderator.Summarize returned an error: agent_done, log, return what exists
SummarizeFailed(outcome) ==
    /\ pc = "summarize"
    /\ outcome \in {"deadline", "error"}
    /\ outcome \in SummarizeOutcomes
    /\ progressLog' = Deliver(progressLog, ProgressEvent("agent_done", "moderator"))
    /\ summaryStep' = [summaryStep EXCEPT !.outcome = outcome]
    /\ Return(responses, NoError)
    /\ UNCHANGED <<aiConfig, AllAgents, hasCallbacks, memoryContext, meetingCtx,
                   selectedAgents, idx, responses, history, respLog, steps,
                   analyzeStep, expiredAt, memoryTask>>

\* SummarizeSucceeded that starts the memory save whatever the summary is
SummarizeSucceeded_AlwaysSaves(summary) ==
    /\ pc = "summarize"
    /\ "ok" \in SummarizeOutcomes
    /\ progressLog' = Deliver(progressLog, ProgressEvent("agent_done", "moderator"))
    /\ summaryStep' = [summaryStep EXCEPT !.outcome = "ok", !.text = summary]
    /\ LET summaryResp == ChatResponse("moderator", "host", summary, 2, "summary")
       IN  IF summary # ""
           THEN /\ responses' = Append(responses, summaryResp)
                /\ respLog' = Deliver(respLog, summaryResp)
           ELSE UNCHANGED <<responses, respLog>>
    /\ memoryTask' = IF memoryContext \notin {"nomgr", "nostock"}
                     THEN "started" ELSE "none"
    /\ Return(responses', NoError)
    /\ UNCHANGED <<aiConfig, AllAgents, hasCallbacks, memoryContext, meetingCtx,
                   selectedAgents, idx, history, steps, analyzeStep, expiredAt>>

\* SummarizeSucceeded that fires the callback but never appends the summary
SummarizeSucceeded_Unappended(summary) ==
    /\ pc = "summarize"
    /\ "ok" \in SummarizeOutcomes
    /\ progressLog' = Deliver(progressLog, ProgressEvent("agent_done", "moderator"))
    /\ summaryStep' = [summaryStep EXCEPT !.outcome = "ok", !.text = summary]
    /\ respLog' = IF summary # ""
                  THEN Deliver(respLog, ChatResponse("moderator", "host", summary, 2, "summary"))
                  ELSE respLog
    /\ memoryTask' = IF memoryContext \notin {"nomgr", "nostock"} /\ summary # ""
                     THEN "started" ELSE "none"
    /\ Return(responses, NoError)
    /\ UNCHANGED <<aiConfig, AllAgents, hasCallbacks, memoryContext, meetingCtx,
                   selectedAgents, idx, responses, history, steps, analyzeStep,
                   expiredAt>>

\* moderator.Summarize returned text: agent_done, append a non-empty
\* summary, callback, start the background memory save, return
SummarizeSucceeded(summary) ==
    /\ pc = "summarize"
    /\ "ok" \in SummarizeOutcomes
    /\ progressLog' = Deliver(progressLog, ProgressEvent("agent_done", "moderator"))
    /\ summaryStep' = [summaryStep EXCEPT !.outcome = "ok", !.text = summary]
    /\ LET summaryResp == ChatResponse("moderator", "host", summary, 2, "summary")
       IN  IF summary # ""
           THEN /\ responses' = Append(responses, summaryResp)
                /\ respLog' = Deliver(respLog, summaryResp)
           ELSE UNCHANGED <<responses, respLog>>
    /\ memoryTask' = IF memoryContext \notin {"nomgr", "nostock"} /\ summary # ""
                     THEN "started" ELSE "none"
    /\ Return(responses', NoError)
    /\ UNCHANGED <<aiConfig, AllAgents, hasCallbacks, memoryContext, meetingCtx,
                   selectedAgents, idx, history, steps, analyzeStep, expiredAt>>

\* the background goroutine ends: extractKeyPointsFromHistory and AddRound
\* under context.Background(); an error of AddRound is logged
MemorySave(ok) ==
    /\ memoryTask = "started"
    /\ memoryTask' = IF ok THEN "saved" ELSE "failed"
    /\ UNCHANGED <<pc, aiConfig, AllAgents, hasCallbacks, memoryContext,
                   meetingCtx, selectedAgents, idx, responses, history, ret,
                   respLog, progressLog, steps, summaryStep, analyzeStep,
                   expiredAt>>

\* the MeetingTimeout timer of meetingCtx fires
MeetingDeadline ==
    /\ InFlight
    /\ meetingCtx = "live"
    /\ meetingCtx' = "deadline"
    /\ expiredAt' = [pc |-> pc, idx |-> idx, n |-> Len(responses)]
    /\ UNCHANGED <<pc, aiConfig, AllAgents, hasCallbacks, memoryContext,
                   selectedAgents, idx, responses, history, ret, respLog,
                   progressLog, steps, summaryStep, analyzeStep, memoryTask>>

\* the caller cancels the parent context
ParentCancel ==
    /\ InFlight
    /\ meetingCtx = "live"
    /\ meetingCtx' = "cancelled"
    /\ UNCHANGED <<pc, aiConfig, AllAgents, hasCallbacks, memoryContext,
                   selectedAgents, idx, responses, history, ret, respLog,
                   progressLog, steps, summaryStep, analyzeStep, expiredAt,
                   memoryTask>>

Init ==
    /\ pc = "idle"
    /\ aiConfig = "nil"
    /\ AllAgents = << >>
    /\ hasCallbacks = FALSE
    /\ memoryContext = "nomgr"
    /\ meetingCtx = "none"
    /\ selectedAgents = << >>
    /\ idx = 0
    /\ responses = << >>
    /\ history = << >>
    /\ ret = NotReturned
    /\ respLog = << >>
    /\ progressLog = << >>
    /\ steps = << >>
    /\ summaryStep = NoStep
    /\ analyzeStep = NoAnalyze
    /\ expiredAt = NoExpiry
    /\ memoryTask = "none"
    /\ ppc = "idle"
    /\ panelAgents = << >>
    /\ parallelCtx = "none"
    /\ gpc = << >>
    /\ mu = 0
    /\ presponses = << >>
    /\ wg = 0
    /\ pret = NotReturned
    /\ finished = << >>
    /\ panelReq = NoRequest
    /\ inFlight = {}
    /\ meetingCancels = [t \in Topics |-> 0]
    /\ callPc = [c \in Calls |-> "idle"]
    /\ callTopic = [c \in Calls |-> "none"]
    /\ callCtx = [c \in Calls |-> "none"]
    /\ lastOp = NoOp
    /\ spc = "idle"
    /\ currentEventType = ""
    /\ textContent = << >>
    /\ thinkingContent = << >>
    /\ toolCallsMap = [i \in Indices |-> NoBuilder]
    /\ blockTypes = [i \in Indices |-> ""]
    /\ usageMetadata = NilUsage
    /\ finishReason = ""
    /\ emitted = << >>
    /\ consumerStopped = FALSE
    /\ nData = 0
    /\ wireArgs = [i \in Indices |-> << >>]
    /\ toolStarts = [i \in Indices |-> << >>]
    /\ early = {}
    /\ mpc = "idle"
    /\ raw = << >>
    /\ merged = << >>
    /\ mi = 0
    /\ observed = NothingObserved
    /\ rpc = "idle"
    /\ hasProgress = TRUE
    /\ runContent = << >>
    /\ runLog = << >>
    /\ received = << >>
    /\ rret = NoRunResult
    /\ clock = 0
    /\ callerCtx = "live"
    /\ deliberation = NoScope
    /\ childCtx = [i \in 1..MaxScopes |-> NoScope]
    /\ scopePc = [mode |-> "none", at |-> "idle", k |-> 0]

Next ==
    \/ \E cfg \in {"nil", "set"}, roster \in Rosters, cbs \in BOOLEAN, mem \in MemoryOptions :
           Enter(cfg, roster, cbs, mem) /\ UNCHANGED <<panelVars, appVars, streamVars, mergeVars, runnerVars, scopeVars>>
    \/ \E ok \in BOOLEAN : CreateModel(ok) /\ UNCHANGED <<panelVars, appVars, streamVars, mergeVars, runnerVars, scopeVars>>
    \/ \E o \in {"deadline", "error"} : AnalyzeFailed(o) /\ UNCHANGED <<panelVars, appVars, streamVars, mergeVars, runnerVars, scopeVars>>
    \/ \E sel \in SeqsUpTo(AgentIDs, MaxSel) : AnalyzeSucceeded(sel) /\ UNCHANGED <<panelVars, appVars, streamVars, mergeVars, runnerVars, scopeVars>>
    \/ LoopTimeout /\ UNCHANGED <<panelVars, appVars, streamVars, mergeVars, runnerVars, scopeVars>>
    \/ AgentStart /\ UNCHANGED <<panelVars, appVars, streamVars, mergeVars, runnerVars, scopeVars>>
    \/ \E o \in {"deadline", "error"} : AgentFailed(o) /\ UNCHANGED <<panelVars, appVars, streamVars, mergeVars, runnerVars, scopeVars>>
    \/ \E c \in Contents :
           /\ pc = "agent" /\ c = TextOf(selectedAgents[idx])
           /\ AgentSucceeded(c) /\ UNCHANGED <<panelVars, appVars, streamVars, mergeVars, runnerVars, scopeVars>>
    \/ SummarizeStart /\ UNCHANGED <<panelVars, appVars, streamVars, mergeVars, runnerVars, scopeVars>>
    \/ \E o \in {"deadline", "error"} : SummarizeFailed(o) /\ UNCHANGED <<panelVars, appVars, streamVars, mergeVars, runnerVars, scopeVars>>
    \/ \E s \in Summaries : SummarizeSucceeded(s) /\ UNCHANGED <<panelVars, appVars, streamVars, mergeVars, runnerVars, scopeVars>>
    \/ \E ok \in BOOLEAN : MemorySave(ok) /\ UNCHANGED <<panelVars, appVars, streamVars, mergeVars, runnerVars, scopeVars>>
    \/ MeetingDeadline /\ UNCHANGED <<panelVars, appVars, streamVars, mergeVars, runnerVars, scopeVars>>
    \/ ParentCancel /\ UNCHANGED <<panelVars, appVars, streamVars, mergeVars, runnerVars, scopeVars>>

Spec == Init /\ [][Next]_vars

(* ------------------- SendMessage / runAgentsParallel ------------------ *)

\* agents a panel call may address, in request order
PanelRoster == <<"a1", "a2", "a3", "a4">>

\* the arguments of runSingleAgentWithContext for the agent cfg of request req
RunInput(cfg, req) ==
    [cfg |-> cfg, stock |-> req.Stock, query |-> req.Query,
     replyContent |-> req.ReplyContent, position |-> req.Position]

NoInput == RunInput("", NoRequest)

\* one agent goroutine: its position, the arguments its run was called
\* with, the content the run returned and the value of responses it read
Goroutine(st, input, content, seen) ==
    [st |-> st, input |-> input, content |-> content, seen |-> seen]

\* `return rs, e` of the panel call
PanelReturn(rs, e) ==
    /\ ppc' = "returned"
    /\ pret' = [responses |-> rs, err |-> e]

\* SendMessage is entered with n agents in req.Agents; CreateModel reads
\* config.Provider, a nil dereference when aiConfig is nil
SendMessage(cfg, n, req) ==
    /\ ppc = "idle"
    /\ panelAgents' = SubSeq(PanelRoster, 1, n)
    /\ panelReq' = req
    /\ gpc' = [g \in 1..n |-> Goroutine("unlaunched", NoInput, "", << >>)]
    /\ ppc' = IF cfg = "nil" THEN "panicked" ELSE "create_model"
    /\ UNCHANGED <<parallelCtx, mu, presponses, wg, pret, finished, inFlight>>

\* CreateModel in SendMessage, then the head of runAgentsParallel:
\* context.WithTimeout(ctx, MeetingTimeout) and createBuilder
PanelCreateModel(ok) ==
    /\ ppc = "create_model"
    /\ IF ~ok
       THEN PanelReturn(<< >>, ErrCreateModel) /\ UNCHANGED parallelCtx
       ELSE ppc' = "launch" /\ parallelCtx' = "live" /\ UNCHANGED pret
    /\ UNCHANGED <<panelAgents, gpc, mu, presponses, wg, finished, panelReq, inFlight>>

NextLaunch == Cardinality({g \in 1..Len(gpc) : gpc[g].st # "unlaunched"}) + 1

\* variant of Launch that hands the run the last utterance collected so
\* far as its quoted content, as the sequential mode does
Launch_SharesTranscript ==
    /\ ppc = "launch"
    /\ NextLaunch <= Len(panelAgents)
    /\ wg' = wg + 1
    /\ gpc' = [gpc EXCEPT ![NextLaunch] =
                  Goroutine("running",
                            [RunInput(panelAgents[NextLaunch], panelReq) EXCEPT
                               !.replyContent =
                                  IF presponses = << >> THEN @
                                  ELSE presponses[Len(presponses)].Content],
                            "", << >>)]
    /\ UNCHANGED <<ppc, panelAgents, parallelCtx, mu, presponses, pret, finished, panelReq, inFlight>>

\* one iteration of the launch loop: wg.Add(1); go func(cfg), which calls
\* runSingleAgentWithContext(agentCtx, builder, &cfg, &req.Stock, req.Query,
\* req.ReplyContent, req.Position)
Launch ==
    /\ ppc = "launch"
    /\ NextLaunch <= Len(panelAgents)
    /\ wg' = wg + 1
    /\ gpc' = [gpc EXCEPT ![NextLaunch] =
                  Goroutine("running", RunInput(panelAgents[NextLaunch], panelReq),
                            "", << >>)]
    /\ UNCHANGED <<ppc, panelAgents, parallelCtx, mu, presponses, pret, finished, panelReq, inFlight>>

\* the launch loop is exhausted: the caller reaches wg.Wait()
LaunchDone ==
    /\ ppc = "launch"
    /\ NextLaunch > Len(panelAgents)
    /\ ppc' = "wait"
    /\ UNCHANGED <<panelAgents, parallelCtx, gpc, mu, presponses, wg, pret, finished, panelReq, inFlight>>

\* runSingleAgentWithContext returned an error in goroutine g: log, return
\* (deferred agentCancel and wg.Done)
GoFailed(g, outcome) ==
    /\ g \in 1..Len(gpc)
    /\ gpc[g].st = "running"
    /\ outcome \in {"deadline", "error"}
    /\ gpc' = [gpc EXCEPT ![g].st = "failed"]
    /\ wg' = wg - 1
    /\ finished' = Append(finished, g)
    /\ UNCHANGED <<ppc, panelAgents, parallelCtx, mu, presponses, pret, panelReq, inFlight>>

\* runSingleAgentWithContext returned content in goroutine g
GoSucceeded(g, content) ==
    /\ g \in 1..Len(gpc)
    /\ gpc[g].st = "running"
    /\ gpc' = [gpc EXCEPT ![g].st = "lock", ![g].content = content]
    /\ finished' = Append(finished, g)
    /\ UNCHANGED <<ppc, panelAgents, parallelCtx, mu, presponses, wg, pret, panelReq, inFlight>>

\* variant of GoLock that does not wait for the mutex to be free
GoLock_NoMutex(g) ==
    /\ g \in 1..Len(gpc)
    /\ gpc[g].st = "lock"
    /\ mu' = g
    /\ gpc' = [gpc EXCEPT ![g].st = "load"]
    /\ UNCHANGED <<ppc, panelAgents, parallelCtx, presponses, wg, pret, finished, panelReq, inFlight>>

\* mu.Lock()
GoLock(g) ==
    /\ g \in 1..Len(gpc)
    /\ gpc[g].st = "lock"
    /\ mu = 0
    /\ mu' = g
    /\ gpc' = [gpc EXCEPT ![g].st = "load"]
    /\ UNCHANGED <<ppc, panelAgents, parallelCtx, presponses, wg, pret, finished, panelReq, inFlight>>

\* the read of responses in responses = append(responses, ...)
GoLoad(g) ==
    /\ g \in 1..Len(gpc)
    /\ gpc[g].st = "load"
    /\ gpc' = [gpc EXCEPT ![g].st = "append", ![g].seen = presponses]
    /\ UNCHANGED <<ppc, panelAgents, parallelCtx, mu, presponses, wg, pret, finished, panelReq, inFlight>>

\* the write of responses = append(responses, ChatResponse{...}): the
\* slice that was read, extended by this agent's response
GoAppend(g) ==
    /\ g \in 1..Len(gpc)
    /\ gpc[g].st = "append"
    /\ presponses' = Append(gpc[g].seen,
           ChatResponse(panelAgents[g], AgentRole(panelAgents[g]), gpc[g].content, 0, ""))
    /\ gpc' = [gpc EXCEPT ![g].st = "unlock", ![g].seen = << >>]
    /\ UNCHANGED <<ppc, panelAgents, parallelCtx, mu, wg, pret, finished, panelReq, inFlight>>

\* mu.Unlock(), then the goroutine returns (deferred agentCancel and wg.Done)
GoUnlock(g) ==
    /\ g \in 1..Len(gpc)
    /\ gpc[g].st = "unlock"
    /\ mu' = 0
    /\ gpc' = [gpc EXCEPT ![g].st = "done"]
    /\ wg' = wg - 1
    /\ UNCHANGED <<ppc, panelAgents, parallelCtx, presponses, pret, finished, panelReq, inFlight>>

\* wg.Wait() returns; `return responses, nil`
WaitDone ==
    /\ ppc = "wait"
    /\ wg = 0
    /\ PanelReturn(presponses, NoError)
    /\ UNCHANGED <<panelAgents, parallelCtx, gpc, mu, presponses, wg, finished, panelReq, inFlight>>

\* the MeetingTimeout timer of parallelCtx fires
PanelDeadline ==
    /\ ppc \in {"launch", "wait"}
    /\ parallelCtx = "live"
    /\ parallelCtx' = "deadline"
    /\ inFlight' = {g \in 1..Len(gpc) : gpc[g].st = "running"}
    /\ UNCHANGED <<ppc, panelAgents, gpc, mu, presponses, wg, pret, finished, panelReq>>

\* the caller cancels the parent context of the panel call
PanelCancel ==
    /\ ppc \in {"launch", "wait"}
    /\ parallelCtx = "live"
    /\ parallelCtx' = "cancelled"
    /\ UNCHANGED <<ppc, panelAgents, gpc, mu, presponses, wg, pret, finished, panelReq, inFlight>>

PanelNext ==
    \/ \E cfg \in {"nil", "set"}, n \in 0..MaxPanel, req \in PanelRequests : SendMessage(cfg, n, req) /\ UNCHANGED <<smartVars, appVars, streamVars, mergeVars, runnerVars, scopeVars>>
    \/ \E ok \in BOOLEAN : PanelCreateModel(ok) /\ UNCHANGED <<smartVars, appVars, streamVars, mergeVars, runnerVars, scopeVars>>
    \/ Launch /\ UNCHANGED <<smartVars, appVars, streamVars, mergeVars, runnerVars, scopeVars>>
    \/ LaunchDone /\ UNCHANGED <<smartVars, appVars, streamVars, mergeVars, runnerVars, scopeVars>>
    \/ \E g \in 1..MaxPanel, o \in {"deadline", "error"} : GoFailed(g, o) /\ UNCHANGED <<smartVars, appVars, streamVars, mergeVars, runnerVars, scopeVars>>
    \/ \E g \in 1..MaxPanel, c \in Contents :
           /\ g \in 1..Len(panelAgents) /\ c = TextOf(panelAgents[g])
           /\ GoSucceeded(g, c) /\ UNCHANGED <<smartVars, appVars, streamVars, mergeVars, runnerVars, scopeVars>>
    \/ \E g \in 1..MaxPanel : GoLock(g) /\ UNCHANGED <<smartVars, appVars, streamVars, mergeVars, runnerVars, scopeVars>>
    \/ \E g \in 1..MaxPanel : GoLoad(g) /\ UNCHANGED <<smartVars, appVars, streamVars, mergeVars, runnerVars, scopeVars>>
    \/ \E g \in 1..MaxPanel : GoAppend(g) /\ UNCHANGED <<smartVars, appVars, streamVars, mergeVars, runnerVars, scopeVars>>
    \/ \E g \in 1..MaxPanel : GoUnlock(g) /\ UNCHANGED <<smartVars, appVars, streamVars, mergeVars, runnerVars, scopeVars>>
    \/ WaitDone /\ UNCHANGED <<smartVars, appVars, streamVars, mergeVars, runnerVars, scopeVars>>
    \/ PanelDeadline /\ UNCHANGED <<smartVars, appVars, streamVars, mergeVars, runnerVars, scopeVars>>
    \/ PanelCancel /\ UNCHANGED <<smartVars, appVars, streamVars, mergeVars, runnerVars, scopeVars>>

SpecPanel == Init /\ [][PanelNext]_vars

(* ------------- App.SendMeetingMessage / App.CancelMeeting ------------- *)

\* what an App operation leaves in lastOp; cancels counts the cancel
\* functions the operation invoked, repeat marks a CancelMeeting that
\* directly follows a CancelMeeting of the same topic
Op(name, stockCode, n) ==
    [op |-> name, topic |-> stockCode, cancels |-> n,
     repeat |-> (name = "CancelMeeting" /\ lastOp.op = "CancelMeeting"
                 /\ lastOp.topic = stockCode)]

\* number of cancel functions cancelMeetingInternal(stockCode) invokes
CancelsInvoked(stockCode) == IF meetingCancels[stockCode] # 0 THEN 1 ELSE 0

\* cancelMeetingInternal without the delete of the cancelled entry
cancelMeetingInternal_KeepsEntry(stockCode) ==
    /\ callCtx' = IF meetingCancels[stockCode] # 0
                  THEN [callCtx EXCEPT ![meetingCancels[stockCode]] = "cancelled"]
                  ELSE callCtx
    /\ meetingCancels' = meetingCancels

\* cancelMeetingInternal: under meetingCancelsMu, cancel and delete the
\* topic's entry if there is one
cancelMeetingInternal(stockCode) ==
    /\ callCtx' = IF meetingCancels[stockCode] # 0
                  THEN [callCtx EXCEPT ![meetingCancels[stockCode]] = "cancelled"]
                  ELSE callCtx
    /\ meetingCancels' = [meetingCancels EXCEPT ![stockCode] = 0]

\* CancelMeeting(stockCode): cancelMeetingInternal, then return true
CancelMeeting(stockCode) ==
    /\ cancelMeetingInternal(stockCode)
    /\ lastOp' = Op("CancelMeeting", stockCode, CancelsInvoked(stockCode))
    /\ UNCHANGED <<callPc, callTopic>>

\* SendMeetingMessage entry: a missing session returns at once; invocations
\* are numbered in the order they enter
SendMeetingMessage(c, stockCode, session) ==
    /\ callPc[c] = "idle"
    /\ \A b \in Calls : b < c => callPc[b] # "idle"
    /\ callTopic' = [callTopic EXCEPT ![c] = stockCode]
    /\ callPc' = [callPc EXCEPT ![c] = IF session THEN "cancel_prev" ELSE "done"]
    /\ lastOp' = Op("SendMeetingMessage", stockCode, 0)
    /\ UNCHANGED <<meetingCancels, callCtx>>

\* a.cancelMeetingInternal(req.StockCode)
CancelPrevious(c) ==
    /\ callPc[c] = "cancel_prev"
    /\ cancelMeetingInternal(callTopic[c])
    /\ callPc' = [callPc EXCEPT ![c] = "register"]
    /\ lastOp' = Op("CancelPrevious", callTopic[c], CancelsInvoked(callTopic[c]))
    /\ UNCHANGED callTopic

\* context.WithCancel(a.ctx), then a second critical section stores the
\* cancel function under the topic
RegisterCancel(c) ==
    /\ callPc[c] = "register"
    /\ callCtx' = [callCtx EXCEPT ![c] = "live"]
    /\ meetingCancels' = [meetingCancels EXCEPT ![callTopic[c]] = c]
    /\ callPc' = [callPc EXCEPT ![c] = "resolve"]
    /\ lastOp' = Op("RegisterCancel", callTopic[c], 0)
    /\ UNCHANGED callTopic

\* getDefaultAIConfig: nil returns (running the deferred cleanup), otherwise
\* runSmartMeeting / runDirectMeeting starts with meetingCtx
ResolveConfig(c, ok) ==
    /\ callPc[c] = "resolve"
    /\ callPc' = [callPc EXCEPT ![c] = IF ok THEN "running" ELSE "cleanup"]
    /\ lastOp' = Op("ResolveConfig", callTopic[c], 0)
    /\ UNCHANGED <<meetingCancels, callTopic, callCtx>>

\* runSmartMeeting / runDirectMeeting returns
MeetingReturns(c) ==
    /\ callPc[c] = "running"
    /\ callPc' = [callPc EXCEPT ![c] = "cleanup"]
    /\ lastOp' = Op("MeetingReturns", callTopic[c], 0)
    /\ UNCHANGED <<meetingCancels, callTopic, callCtx>>

\* a return without the deferred delete
Cleanup_KeepsEntry(c) ==
    /\ callPc[c] = "cleanup"
    /\ callPc' = [callPc EXCEPT ![c] = "done"]
    /\ lastOp' = Op("Cleanup", callTopic[c], 0)
    /\ UNCHANGED <<meetingCancels, callTopic, callCtx>>

\* the deferred delete(a.meetingCancels, req.StockCode)
Cleanup(c) ==
    /\ callPc[c] = "cleanup"
    /\ meetingCancels' = [meetingCancels EXCEPT ![callTopic[c]] = 0]
    /\ callPc' = [callPc EXCEPT ![c] = "done"]
    /\ lastOp' = Op("Cleanup", callTopic[c], 0)
    /\ UNCHANGED <<callTopic, callCtx>>

AppNext ==
    \/ \E c \in Calls, t \in Topics, session \in BOOLEAN :
           SendMeetingMessage(c, t, session) /\ UNCHANGED <<smartVars, panelVars, streamVars, mergeVars, runnerVars, scopeVars>>
    \/ \E c \in Calls : CancelPrevious(c) /\ UNCHANGED <<smartVars, panelVars, streamVars, mergeVars, runnerVars, scopeVars>>
    \/ \E c \in Calls : RegisterCancel(c) /\ UNCHANGED <<smartVars, panelVars, streamVars, mergeVars, runnerVars, scopeVars>>
    \/ \E c \in Calls, ok \in BOOLEAN : ResolveConfig(c, ok) /\ UNCHANGED <<smartVars, panelVars, streamVars, mergeVars, runnerVars, scopeVars>>
    \/ \E c \in Calls : MeetingReturns(c) /\ UNCHANGED <<smartVars, panelVars, streamVars, mergeVars, runnerVars, scopeVars>>
    \/ \E c \in Calls : Cleanup(c) /\ UNCHANGED <<smartVars, panelVars, streamVars, mergeVars, runnerVars, scopeVars>>
    \/ \E t \in Topics : CancelMeeting(t) /\ UNCHANGED <<smartVars, panelVars, streamVars, mergeVars, runnerVars, scopeVars>>

SpecApp == Init /\ [][AppNext]_vars

(* ---------------- generateStream / processStream -------------------- *)

\* convertStopReason; genai.FinishReason is a string type whose zero value
\* "" differs from FinishReasonUnspecified
convertStopReason(reason) ==
    CASE reason = "end_turn" -> "STOP"
      [] reason = "max_tokens" -> "MAX_TOKENS"
      [] reason = "stop_sequence" -> "STOP"
      [] reason = "tool_use" -> "STOP"
      [] OTHER -> "FINISH_REASON_UNSPECIFIED"

\* characters with a meaning in JSON syntax
Structural == {"{", "}", "\"", ":", ","}

\* json.Unmarshal of a character sequence into map[string]any, for objects
\* with at most one member whose key and value are plain strings
Unmarshal(v) ==
    LET Q == {i \in 1..Len(v) : v[i] = "\""}
        q(k) == CHOOSE i \in Q : Cardinality({j \in Q : j < i}) = k - 1
        plain(a, b) == \A i \in a..b : v[i] \notin Structural
    IN  IF v = <<"{", "}">> THEN [err |-> FALSE, args |-> {}]
        ELSE IF /\ Len(v) >= 7
                /\ v[1] = "{" /\ v[Len(v)] = "}"
                /\ Cardinality(Q) = 4
                /\ q(1) = 2 /\ q(3) = q(2) + 2 /\ v[q(2) + 1] = ":"
                /\ q(4) = Len(v) - 1
                /\ plain(q(1) + 1, q(2) - 1) /\ plain(q(3) + 1, q(4) - 1)
             THEN [err |-> FALSE,
                   args |-> {<<SubSeq(v, q(1) + 1, q(2) - 1),
                               SubSeq(v, q(3) + 1, q(4) - 1)>>}]
             ELSE [err |-> TRUE, args |-> {}]

\* parseInputArgs for a string input: the parsed object, or an empty map
\* when Unmarshal fails
parseInputArgs(v) == IF Unmarshal(v).err THEN {} ELSE Unmarshal(v).args

\* a genai.Part holding text
TextPart(text, thought) ==
    [text |-> text, thought |-> thought, isCall |-> FALSE,
     id |-> "", name |-> "", args |-> {}]

\* a genai.Part holding the FunctionCall built from a toolCallBuilder
FunctionCallPart(builder) ==
    [text |-> << >>, thought |-> FALSE, isCall |-> TRUE,
     id |-> builder.id, name |-> builder.name,
     args |-> parseInputArgs(builder.args)]

\* what one yield call hands to the consumer: (*model.LLMResponse, error)
Item(kind, parts, usage, finish, err) ==
    [kind |-> kind, parts |-> parts, usage |-> usage, finish |-> finish,
     err |-> err]

\* the partial response of a text_delta
PartialResponse(text) ==
    Item("partial", <<TextPart(<<text>>, FALSE)>>, NilUsage, "", << >>)

\* the error item of handleError
ErrorItem(ok) ==
    Item("error", << >>, NilUsage, "",
         IF ok THEN <<"Anthropic API error (", "overloaded_error", "): ", "Overloaded">>
               ELSE <<"Anthropic API stream error: ", "raw data">>)

\* iteration orders of `range toolCallsMap`
Orders ==
    LET present == {i \in Indices : toolCallsMap[i].present}
    IN  {o \in SeqsUpTo(Indices, Cardinality(Indices)) :
            /\ Len(o) = Cardinality(present)
            /\ {o[k] : k \in 1..Len(o)} = present}

\* FinalParts leaving out the tool calls whose arguments do not parse
FinalParts_DropsUnparsed(order) ==
    (IF thinkingContent # << >> THEN <<TextPart(thinkingContent, TRUE)>> ELSE << >>)
    \o (IF textContent # << >> THEN <<TextPart(textContent, FALSE)>> ELSE << >>)
    \o LET parses(i) == ~Unmarshal(toolCallsMap[i].args).err
           kept == SelectSeq(order, parses)
       IN  [k \in 1..Len(kept) |-> FunctionCallPart(toolCallsMap[kept[k]])]

\* aggregatedContent.Parts of the final response
FinalParts(order) ==
    (IF thinkingContent # << >> THEN <<TextPart(thinkingContent, TRUE)>> ELSE << >>)
    \o (IF textContent # << >> THEN <<TextPart(textContent, FALSE)>> ELSE << >>)
    \o [k \in 1..Len(order) |-> FunctionCallPart(toolCallsMap[order[k]])]

\* finishReason after the default of lines 690-692
FinalFinish ==
    IF finishReason = "FINISH_REASON_UNSPECIFIED" THEN "STOP" ELSE finishReason

\* yield(item): a consumer that has stopped is called again, which panics
\* in a range-over-func loop; otherwise the item is delivered and the
\* consumer may stop
Yield(item, stop) ==
    /\ emitted' = IF consumerStopped THEN emitted ELSE Append(emitted, item)
    /\ consumerStopped' = (consumerStopped \/ stop)

\* the record of what the wire carried after one more line: whether the line
\* was a malformed data line, its stop_reason, and whether it brought the
\* prompt or the output token count
Observe(isMalformed, stopReason, prompt, output) ==
    observed' = [malformed |-> isMalformed,
                 stop |-> IF stopReason # "" THEN stopReason ELSE observed.stop,
                 prompt |-> (observed.prompt \/ prompt),
                 output |-> (observed.output \/ output)]

\* the scanner loop takes a data line under the current event type
DataLine(type) ==
    /\ spc = "scan"
    /\ nData < MaxData
    /\ currentEventType = type
    /\ nData' = nData + 1

\* what a handler leaves alone when it only resets currentEventType
Skipped ==
    /\ currentEventType' = ""
    /\ UNCHANGED <<spc, textContent, thinkingContent, toolCallsMap, blockTypes,
                   usageMetadata, finishReason, emitted, consumerStopped,
                   wireArgs, toolStarts, early>>

\* generateStream up to processStream: a failed request yields its error
DoRequest(ok) ==
    /\ spc = "idle"
    /\ Observe(FALSE, "", FALSE, FALSE)
    /\ spc' = IF ok THEN "scan" ELSE "failed"
    /\ emitted' = IF ok THEN emitted
                  ELSE Append(emitted, Item("error", << >>, NilUsage, "", <<"request failed">>))
    /\ UNCHANGED <<currentEventType, textContent, thinkingContent, toolCallsMap,
                   blockTypes, usageMetadata, finishReason, consumerStopped,
                   nData, wireArgs, toolStarts, early>>

\* a line "event: <type>"
EventLine(type) ==
    /\ spc = "scan"
    /\ Observe(FALSE, "", FALSE, FALSE)
    /\ nData < MaxData
    /\ currentEventType # type
    /\ currentEventType' = type
    /\ UNCHANGED <<spc, textContent, thinkingContent, toolCallsMap, blockTypes,
                   usageMetadata, finishReason, emitted, consumerStopped, nData,
                   wireArgs, toolStarts, early>>

\* a data line under ping, message_stop, content_block_stop or no event type
IgnoredData ==
    /\ \E t \in {"", "ping", "message_stop", "content_block_stop"} : DataLine(t)
    /\ Observe(FALSE, "", FALSE, FALSE)
    /\ Skipped

\* a malformed data line that ends the stream with an error
MalformedData_Aborts ==
    /\ \E t \in {"message_start", "content_block_start", "content_block_delta",
                 "message_delta"} : DataLine(t)
    /\ observed' = [observed EXCEPT !.malformed = TRUE]
    /\ Yield(ErrorItem(FALSE), FALSE)
    /\ spc' = "errored"
    /\ UNCHANGED <<currentEventType, textContent, thinkingContent, toolCallsMap,
                   blockTypes, usageMetadata, finishReason, wireArgs, toolStarts,
                   early>>

\* a data line of a handled event type that does not unmarshal
MalformedData ==
    /\ \E t \in {"message_start", "content_block_start", "content_block_delta",
                 "message_delta"} : DataLine(t)
    /\ Observe(TRUE, "", FALSE, FALSE)
    /\ Skipped

\* handleMessageStart
handleMessageStart(hasUsage) ==
    /\ DataLine("message_start")
    /\ Observe(FALSE, "", hasUsage, FALSE)
    /\ usageMetadata' = IF hasUsage
                        THEN [set |-> TRUE, prompt |-> 7, candidates |-> 0, total |-> 0]
                        ELSE usageMetadata
    /\ currentEventType' = ""
    /\ UNCHANGED <<spc, textContent, thinkingContent, toolCallsMap, blockTypes,
                   finishReason, emitted, consumerStopped, wireArgs, toolStarts,
                   early>>

\* handleContentBlockStart
handleContentBlockStart(index, type, id) ==
    /\ DataLine("content_block_start")
    /\ Observe(FALSE, "", FALSE, FALSE)
    /\ blockTypes' = [blockTypes EXCEPT ![index] = type]
    /\ toolCallsMap' =
           IF type = "tool_use"
           THEN [toolCallsMap EXCEPT
                    ![index] = [present |-> TRUE, id |-> id, name |-> NameOf(id),
                                args |-> << >>]]
           ELSE toolCallsMap
    /\ toolStarts' = IF type = "tool_use"
                     THEN [toolStarts EXCEPT ![index] = Append(@, id)]
                     ELSE toolStarts
    /\ currentEventType' = ""
    /\ UNCHANGED <<spc, textContent, thinkingContent, usageMetadata, finishReason,
                   emitted, consumerStopped, wireArgs, early>>

\* handleTextDelta yielding the cumulative buffer instead of the fragment
handleTextDelta_Cumulative(text, stop) ==
    /\ DataLine("content_block_delta")
    /\ Observe(FALSE, "", FALSE, FALSE)
    /\ textContent' = Append(textContent, text)
    /\ Yield(Item("partial", <<TextPart(Append(textContent, text), FALSE)>>,
                  NilUsage, "", << >>), stop)
    /\ spc' = IF consumerStopped THEN "panicked" ELSE "scan"
    /\ currentEventType' = ""
    /\ UNCHANGED <<thinkingContent, toolCallsMap, blockTypes, usageMetadata,
                   finishReason, wireArgs, toolStarts, early>>

\* handleContentBlockDelta, text_delta
handleTextDelta(text, stop) ==
    /\ DataLine("content_block_delta")
    /\ Observe(FALSE, "", FALSE, FALSE)
    /\ textContent' = Append(textContent, text)
    /\ Yield(PartialResponse(text), stop)
    /\ spc' = IF consumerStopped THEN "panicked" ELSE "scan"
    /\ currentEventType' = ""
    /\ UNCHANGED <<thinkingContent, toolCallsMap, blockTypes, usageMetadata,
                   finishReason, wireArgs, toolStarts, early>>

\* handleContentBlockDelta, thinking_delta
handleThinkingDelta(thinking) ==
    /\ DataLine("content_block_delta")
    /\ Observe(FALSE, "", FALSE, FALSE)
    /\ thinkingContent' = Append(thinkingContent, thinking)
    /\ currentEventType' = ""
    /\ UNCHANGED <<spc, textContent, toolCallsMap, blockTypes, usageMetadata,
                   finishReason, emitted, consumerStopped, wireArgs, toolStarts,
                   early>>

\* handleInputJSONDelta putting the new fragment in front of the buffer
handleInputJSONDelta_Prepends(index, partialJSON) ==
    /\ DataLine("content_block_delta")
    /\ Observe(FALSE, "", FALSE, FALSE)
    /\ toolCallsMap' =
           IF toolCallsMap[index].present
           THEN [toolCallsMap EXCEPT ![index].args = partialJSON \o @]
           ELSE toolCallsMap
    /\ wireArgs' = [wireArgs EXCEPT ![index] = @ \o partialJSON]
    /\ early' = IF toolStarts[index] = << >> THEN early \cup {index} ELSE early
    /\ currentEventType' = ""
    /\ UNCHANGED <<spc, textContent, thinkingContent, blockTypes, usageMetadata,
                   finishReason, emitted, consumerStopped, toolStarts>>

\* handleContentBlockDelta, input_json_delta
handleInputJSONDelta(index, partialJSON) ==
    /\ DataLine("content_block_delta")
    /\ Observe(FALSE, "", FALSE, FALSE)
    /\ toolCallsMap' =
           IF toolCallsMap[index].present
           THEN [toolCallsMap EXCEPT ![index].args = @ \o partialJSON]
           ELSE toolCallsMap
    /\ wireArgs' = [wireArgs EXCEPT ![index] = @ \o partialJSON]
    /\ early' = IF toolStarts[index] = << >> THEN early \cup {index} ELSE early
    /\ currentEventType' = ""
    /\ UNCHANGED <<spc, textContent, thinkingContent, blockTypes, usageMetadata,
                   finishReason, emitted, consumerStopped, toolStarts>>

\* handleMessageDelta
handleMessageDelta(stopReason, hasUsage) ==
    /\ DataLine("message_delta")
    /\ Observe(FALSE, stopReason, FALSE, hasUsage)
    /\ finishReason' = IF stopReason # "" THEN convertStopReason(stopReason)
                       ELSE finishReason
    /\ usageMetadata' = IF hasUsage /\ usageMetadata.set
                        THEN [usageMetadata EXCEPT
                                 !.candidates = 3, !.total = usageMetadata.prompt + 3]
                        ELSE usageMetadata
    /\ currentEventType' = ""
    /\ UNCHANGED <<spc, textContent, thinkingContent, toolCallsMap, blockTypes,
                   emitted, consumerStopped, wireArgs, toolStarts, early>>

\* handleError without the return that follows it in processStream
handleError_Continues(ok) ==
    /\ DataLine("error")
    /\ Observe(FALSE, "", FALSE, FALSE)
    /\ Yield(ErrorItem(ok), FALSE)
    /\ spc' = IF consumerStopped THEN "panicked" ELSE "scan"
    /\ currentEventType' = ""
    /\ UNCHANGED <<textContent, thinkingContent, toolCallsMap,
                   blockTypes, usageMetadata, finishReason, wireArgs, toolStarts,
                   early>>

\* handleError followed by the return of processStream
handleError(ok) ==
    /\ DataLine("error")
    /\ Observe(FALSE, "", FALSE, FALSE)
    /\ Yield(ErrorItem(ok), FALSE)
    /\ spc' = IF consumerStopped THEN "panicked" ELSE "errored"
    /\ UNCHANGED <<currentEventType, textContent, thinkingContent, toolCallsMap,
                   blockTypes, usageMetadata, finishReason, wireArgs, toolStarts,
                   early>>

\* EndOfStream yielding no final response when there is no content
EndOfStream_SkipsEmpty(order) ==
    /\ spc = "scan"
    /\ order \in Orders
    /\ Observe(FALSE, "", FALSE, FALSE)
    /\ finishReason' = FinalFinish
    /\ IF FinalParts(order) = << >>
       THEN UNCHANGED <<emitted, consumerStopped>>
       ELSE Yield(Item("final", FinalParts(order), usageMetadata, FinalFinish, << >>), FALSE)
    /\ spc' = IF consumerStopped THEN "panicked" ELSE "done"
    /\ UNCHANGED <<currentEventType, textContent, thinkingContent, toolCallsMap,
                   blockTypes, usageMetadata, nData, wireArgs, toolStarts, early>>

\* scanner.Scan() returns false: assemble and yield the final response
EndOfStream(order) ==
    /\ spc = "scan"
    /\ order \in Orders
    /\ Observe(FALSE, "", FALSE, FALSE)
    /\ finishReason' = FinalFinish
    /\ Yield(Item("final", FinalParts(order), usageMetadata, FinalFinish, << >>), FALSE)
    /\ spc' = IF consumerStopped THEN "panicked" ELSE "done"
    /\ UNCHANGED <<currentEventType, textContent, thinkingContent, toolCallsMap,
                   blockTypes, usageMetadata, nData, wireArgs, toolStarts, early>>

\* a ProgressEvent of the runner: tool_call with the tool name, or
\* streaming with the text fragment
RunnerEvent(type, detail) == [Type |-> type, Detail |-> detail]

\* the loop body of runSingleAgentWithHistory for one part that keeps a
\* thought part
runPart_KeepsThought(st, part, partial, cb) ==
    LET log1 == IF part.isCall /\ cb
                THEN Append(st.log, RunnerEvent("tool_call", <<part.name>>))
                ELSE st.log
    IN  IF part.text # << >>
        THEN IF partial
             THEN [content |-> st.content \o part.text,
                   log |-> IF cb THEN Append(log1, RunnerEvent("streaming", part.text))
                           ELSE log1]
             ELSE IF st.content = << >>
                  THEN [content |-> st.content \o part.text, log |-> log1]
                  ELSE [content |-> st.content, log |-> log1]
        ELSE [content |-> st.content, log |-> log1]

\* the loop body of runSingleAgentWithHistory for one part; st holds content
\* and the events delivered so far
runPart(st, part, partial, cb) ==
    IF part.thought THEN st
    ELSE LET log1 == IF part.isCall /\ cb
                     THEN Append(st.log, RunnerEvent("tool_call", <<part.name>>))
                     ELSE st.log
         IN  IF part.text # << >>
             THEN IF partial
                  THEN [content |-> st.content \o part.text,
                        log |-> IF cb THEN Append(log1, RunnerEvent("streaming", part.text))
                                ELSE log1]
                  ELSE IF st.content = << >>
                       THEN [content |-> st.content \o part.text, log |-> log1]
                       ELSE [content |-> st.content, log |-> log1]
             ELSE [content |-> st.content, log |-> log1]

RECURSIVE runParts(_, _, _, _)
\* the loop over event.LLMResponse.Content.Parts
runParts(st, parts, partial, cb) ==
    IF parts = << >> THEN st
    ELSE runParts(runPart(st, Head(parts), partial, cb), Tail(parts), partial, cb)

\* the runner's loop takes the item a yield has just delivered: an error
\* makes it return "", anything else goes through the loop body
Drain ==
    /\ IF Len(emitted') > Len(emitted)
       THEN LET item == emitted'[Len(emitted')]
                st == runParts([content |-> runContent, log |-> runLog],
                               item.parts, item.kind = "partial", hasProgress)
            IN  IF item.kind = "error"
                THEN runContent' = << >> /\ runLog' = runLog
                ELSE runContent' = st.content /\ runLog' = st.log
       ELSE UNCHANGED <<runContent, runLog>>
    /\ UNCHANGED <<rpc, hasProgress, received, rret>>

StreamNext ==
    \/ \E ok \in BOOLEAN : DoRequest(ok) /\ Drain /\ UNCHANGED <<smartVars, panelVars, appVars, mergeVars, scopeVars>>
    \/ \E t \in EventTypes : EventLine(t) /\ Drain /\ UNCHANGED <<smartVars, panelVars, appVars, mergeVars, scopeVars>>
    \/ IgnoredData /\ Drain /\ UNCHANGED <<smartVars, panelVars, appVars, mergeVars, scopeVars>>
    \/ MalformedData /\ Drain /\ UNCHANGED <<smartVars, panelVars, appVars, mergeVars, scopeVars>>
    \/ \E u \in BOOLEAN : handleMessageStart(u) /\ Drain /\ UNCHANGED <<smartVars, panelVars, appVars, mergeVars, scopeVars>>
    \/ \E i \in Indices, id \in ToolIDs :
           handleContentBlockStart(i, "tool_use", id) /\ Drain /\ UNCHANGED <<smartVars, panelVars, appVars, mergeVars, scopeVars>>
    \/ \E i \in Indices :
           handleContentBlockStart(i, "text", "") /\ Drain /\ UNCHANGED <<smartVars, panelVars, appVars, mergeVars, scopeVars>>
    \/ \E t \in TextFragments, stop \in BOOLEAN :
           handleTextDelta(t, stop) /\ Drain /\ UNCHANGED <<smartVars, panelVars, appVars, mergeVars, scopeVars>>
    \/ \E t \in ThinkingFragments :
           handleThinkingDelta(t) /\ Drain /\ UNCHANGED <<smartVars, panelVars, appVars, mergeVars, scopeVars>>
    \/ \E i \in Indices, f \in JSONFragments :
           handleInputJSONDelta(i, f) /\ Drain /\ UNCHANGED <<smartVars, panelVars, appVars, mergeVars, scopeVars>>
    \/ \E r \in StopReasons, u \in BOOLEAN :
           handleMessageDelta(r, u) /\ Drain /\ UNCHANGED <<smartVars, panelVars, appVars, mergeVars, scopeVars>>
    \/ \E ok \in BOOLEAN : handleError(ok) /\ Drain /\ UNCHANGED <<smartVars, panelVars, appVars, mergeVars, scopeVars>>
    \/ \E o \in SeqsUpTo(Indices, 2) : EndOfStream(o) /\ Drain /\ UNCHANGED <<smartVars, panelVars, appVars, mergeVars, scopeVars>>

SpecStream == Init /\ [][StreamNext]_vars

(* --------------------- runSingleAgentWithHistory ---------------------- *)

\* a nil event, or an event whose LLMResponse.Content is nil
NilEvent == Item("nil", << >>, NilUsage, "", << >>)

\* a partial event with these parts
PartialEvent(parts) == Item("partial", parts, NilUsage, "", << >>)

\* a non-partial event with these parts
FinalEvent(parts) == Item("final", parts, NilUsage, "STOP", << >>)

\* a function-call part
CallPart ==
    FunctionCallPart([present |-> TRUE, id |-> "toolu_A", name |-> "get_stock",
                      args |-> <<"{", "}">>])

\* events r.Run may hand to the loop
RunnerEvents ==
    {NilEvent,
     PartialEvent(<<TextPart(<<"Hel">>, FALSE)>>),
     PartialEvent(<<TextPart(<<"lo">>, FALSE)>>),
     PartialEvent(<<TextPart(<<"hmm">>, TRUE)>>),
     FinalEvent(<<TextPart(<<"Hello">>, FALSE)>>),
     FinalEvent(<<TextPart(<<"hmm">>, TRUE), TextPart(<<"Hel">>, FALSE),
                  TextPart(<<"lo">>, FALSE)>>),
     FinalEvent(<<CallPart>>)}

\* the runner's return
RunReturn(text, e) ==
    /\ rpc' = "returned"
    /\ rret' = [text |-> text, err |-> e]

\* entry: building the agent, the runner or the session may fail
runSingleAgentWithHistory(cb, ok) ==
    /\ rpc = "idle"
    /\ hasProgress' = cb
    /\ IF ok THEN rpc' = "running" /\ rret' = rret
       ELSE RunReturn(<< >>, "error")
    /\ UNCHANGED <<runContent, runLog, received>>

\* one iteration of the loop over r.Run
RunEvent(event) ==
    /\ rpc = "running"
    /\ Len(received) < MaxEvents
    /\ received' = Append(received, event)
    /\ LET st == runParts([content |-> runContent, log |-> runLog],
                          event.parts, event.kind = "partial", hasProgress)
       IN  runContent' = st.content /\ runLog' = st.log
    /\ UNCHANGED <<rpc, hasProgress, rret>>

\* r.Run yields an error: return "", err
RunError ==
    /\ rpc = "running"
    /\ RunReturn(<< >>, "error")
    /\ UNCHANGED <<hasProgress, runContent, runLog, received>>

\* r.Run is over: return content, nil
RunDone ==
    /\ rpc = "running"
    /\ RunReturn(runContent, NoError)
    /\ UNCHANGED <<hasProgress, runContent, runLog, received>>

RunnerNext ==
    \/ \E cb \in BOOLEAN, ok \in BOOLEAN :
           runSingleAgentWithHistory(cb, ok)
           /\ UNCHANGED <<smartVars, panelVars, appVars, streamVars, mergeVars, scopeVars>>
    \/ \E e \in RunnerEvents :
           RunEvent(e) /\ UNCHANGED <<smartVars, panelVars, appVars, streamVars, mergeVars, scopeVars>>
    \/ RunError /\ UNCHANGED <<smartVars, panelVars, appVars, streamVars, mergeVars, scopeVars>>
    \/ RunDone /\ UNCHANGED <<smartVars, panelVars, appVars, streamVars, mergeVars, scopeVars>>

SpecRunner == Init /\ [][RunnerNext]_vars

(* ----------- toAnthropicMessages / mergeConsecutiveMessages ----------- *)

\* convertRole
convertRole(role) ==
    CASE role = "model" -> "assistant"
      [] role = "user" -> "user"
      [] OTHER -> "user"

\* the ContentBlock toContentBlocks makes of one part
ContentBlock(part) ==
    CASE part.thought /\ part.text # "" -> [type |-> "thinking", text |-> part.text]
      [] part.text # "" -> [type |-> "text", text |-> part.text]
      [] OTHER -> [type |-> "tool_use", text |-> part.call]

\* the part gives a block: it has text or a function call
HasBlock(part) == part.text # "" \/ part.call # ""

RECURSIVE toContentBlocks(_)
\* toContentBlocks over content.Parts
toContentBlocks(parts) ==
    IF parts = << >> THEN << >>
    ELSE (IF HasBlock(Head(parts)) THEN <<ContentBlock(Head(parts))>> ELSE << >>)
         \o toContentBlocks(Tail(parts))

RECURSIVE RawMessages(_)
\* the loop of toAnthropicMessages: nil contents and contents without
\* blocks are left out
RawMessages(contents) ==
    IF contents = << >> THEN << >>
    ELSE LET c == Head(contents)
             blocks == toContentBlocks(c.parts)
         IN  (IF c = NilContent \/ blocks = << >> THEN << >>
              ELSE <<[Role |-> convertRole(c.role), Content |-> blocks]>>)
             \o RawMessages(Tail(contents))

\* toAnthropicMessages up to the merge loop; mergeConsecutiveMessages
\* returns a list of at most one message as it is
toAnthropicMessages(contents) ==
    /\ mpc = "idle"
    /\ raw' = RawMessages(contents)
    /\ IF Len(RawMessages(contents)) <= 1
       THEN mpc' = "done" /\ merged' = RawMessages(contents) /\ mi' = 0
       ELSE mpc' = "merge" /\ merged' = << >> /\ mi' = 1

\* one iteration of the merge loop replacing the last message's blocks
MergeStep_Overwrites ==
    /\ mpc = "merge"
    /\ mi <= Len(raw)
    /\ merged' =
           IF Len(merged) > 0 /\ merged[Len(merged)].Role = raw[mi].Role
           THEN [merged EXCEPT ![Len(merged)].Content = raw[mi].Content]
           ELSE Append(merged, raw[mi])
    /\ mi' = mi + 1
    /\ UNCHANGED <<mpc, raw>>

\* one iteration of the merge loop
MergeStep ==
    /\ mpc = "merge"
    /\ mi <= Len(raw)
    /\ merged' =
           IF Len(merged) > 0 /\ merged[Len(merged)].Role = raw[mi].Role
           THEN [merged EXCEPT ![Len(merged)].Content = @ \o raw[mi].Content]
           ELSE Append(merged, raw[mi])
    /\ mi' = mi + 1
    /\ UNCHANGED <<mpc, raw>>

\* the loop is over: return merged
MergeReturn ==
    /\ mpc = "merge"
    /\ mi > Len(raw)
    /\ mpc' = "done"
    /\ UNCHANGED <<raw, merged, mi>>

MergeNext ==
    \/ \E cs \in SeqsUpTo(GenaiContents, MaxContents) :
           toAnthropicMessages(cs) /\ UNCHANGED <<smartVars, panelVars, appVars, streamVars, runnerVars, scopeVars>>
    \/ MergeStep /\ UNCHANGED <<smartVars, panelVars, appVars, streamVars, runnerVars, scopeVars>>
    \/ MergeReturn /\ UNCHANGED <<smartVars, panelVars, appVars, streamVars, runnerVars, scopeVars>>

SpecMerge == Init /\ [][MergeNext]_vars

(* -------------------------- deadline scopes --------------------------- *)

Min(a, b) == IF a <= b THEN a ELSE b

\* Err() of the context a scope was derived from: the caller's ctx or the
\* deliberation scope delib
ErrOf(parent, caller, delib) == IF parent = "ctx" THEN caller ELSE delib.err

\* Deadline() of the context a scope was derived from
DeadlineOf(parent, delib) == IF parent = "ctx" THEN NoDeadline ELSE delib.deadline

\* variant of WithTimeout that derives the scope from the caller's ctx,
\* whatever parent it is given
WithTimeout_Detached(kind, parent, delib, timeout) ==
    [kind |-> kind, parent |-> "ctx", opened |-> clock,
     deadline |-> clock + timeout, err |-> callerCtx, running |-> TRUE]

\* kind, cancel := context.WithTimeout(parent, timeout): the deadline is
\* the earlier of the parent's and now + timeout, and a scope derived from
\* a context that is done is done for the same reason
WithTimeout(kind, parent, delib, timeout) ==
    [kind |-> kind, parent |-> parent, opened |-> clock,
     deadline |-> Min(DeadlineOf(parent, delib), clock + timeout),
     err |-> ErrOf(parent, callerCtx, delib), running |-> TRUE]

\* the timer of scope s at time t
Expire(s, t) ==
    IF s.err = "live" /\ s.deadline <= t THEN [s EXCEPT !.err = "deadline"] ELSE s

\* a scope whose parent is done is done for the parent's reason
Inherit(s, caller, delib) ==
    IF s.err = "live" /\ ErrOf(s.parent, caller, delib) # "live"
    THEN [s EXCEPT !.err = ErrOf(s.parent, caller, delib)]
    ELSE s

\* the cancel function of scope s
CancelScope(s) == IF s.err = "live" THEN [s EXCEPT !.err = "cancelled"] ELSE s

\* the step under child scope i has returned and its cancel function ran:
\* the scope is released
Closed(i) == [childCtx EXCEPT ![i] = NoScope]

\* the call returns: the deferred cancel of the deliberation scope
ScopeReturn(children) ==
    /\ scopePc' = [scopePc EXCEPT !.at = "returned"]
    /\ deliberation' = [CancelScope(deliberation) EXCEPT !.running = FALSE]
    /\ childCtx' = [i \in 1..MaxScopes |->
                       Inherit(children[i], callerCtx, deliberation')]

\* RunSmartMeetingWithCallback: meetingCtx, then modelCtx and CreateModel
ScopeEnterSmart ==
    /\ scopePc.at = "idle"
    /\ LET m == WithTimeout("meetingCtx", "ctx", deliberation, MeetingTimeout)
       IN  /\ deliberation' = m
           /\ childCtx' = [childCtx EXCEPT ![1] =
                  WithTimeout("modelCtx", "meetingCtx", m, ModelCreationTimeout)]
    /\ scopePc' = [mode |-> "smart", at |-> "model", k |-> 0]
    /\ UNCHANGED <<clock, callerCtx>>

\* CreateModel returned, modelCancel(); on success moderatorCtx and Analyze
ModelReturns(ok) ==
    /\ scopePc.at = "model"
    /\ IF ok
       THEN /\ childCtx' = [Closed(1) EXCEPT ![1] =
                   WithTimeout("moderatorCtx", "meetingCtx", deliberation,
                               ModeratorTimeout)]
            /\ scopePc' = [scopePc EXCEPT !.at = "moderator"]
            /\ UNCHANGED deliberation
       ELSE ScopeReturn(Closed(1))
    /\ UNCHANGED <<clock, callerCtx>>

\* Analyze returned, moderatorCancel(); on success the agent loop
ModeratorReturns(ok) ==
    /\ scopePc.at = "moderator"
    /\ IF ok
       THEN /\ childCtx' = Closed(1)
            /\ scopePc' = [scopePc EXCEPT !.at = "loop", !.k = 1]
            /\ UNCHANGED deliberation
       ELSE ScopeReturn(Closed(1))
    /\ UNCHANGED <<clock, callerCtx>>

\* loop head: return when meetingCtx is done, else agentCtx and the run
LoopHead ==
    /\ scopePc.at = "loop"
    /\ scopePc.k <= MaxScopes
    /\ IF deliberation.err # "live"
       THEN ScopeReturn(childCtx)
       ELSE /\ childCtx' = [childCtx EXCEPT ![1] =
                   WithTimeout("agentCtx", "meetingCtx", deliberation, AgentTimeout)]
            /\ scopePc' = [scopePc EXCEPT !.at = "agent"]
            /\ UNCHANGED deliberation
    /\ UNCHANGED <<clock, callerCtx>>

\* runSingleAgentWithHistory returned, agentCancel()
AgentReturns ==
    /\ scopePc.at = "agent"
    /\ childCtx' = Closed(1)
    /\ scopePc' = [scopePc EXCEPT !.at = "loop", !.k = @ + 1]
    /\ UNCHANGED <<clock, callerCtx, deliberation>>

\* loop exhausted: summaryCtx and Summarize
LoopExit ==
    /\ scopePc.at = "loop"
    /\ scopePc.k > MaxScopes
    /\ childCtx' = [childCtx EXCEPT ![1] =
           WithTimeout("summaryCtx", "meetingCtx", deliberation, ModeratorTimeout)]
    /\ scopePc' = [scopePc EXCEPT !.at = "summary"]
    /\ UNCHANGED <<clock, callerCtx, deliberation>>

\* Summarize returned, summaryCancel(), return
SummaryReturns ==
    /\ scopePc.at = "summary"
    /\ ScopeReturn(Closed(1))
    /\ UNCHANGED <<clock, callerCtx>>

\* runAgentsParallel: parallelCtx
ScopeEnterPanel ==
    /\ scopePc.at = "idle"
    /\ deliberation' = WithTimeout("parallelCtx", "ctx", deliberation, MeetingTimeout)
    /\ scopePc' = [mode |-> "panel", at |-> "launch", k |-> 1]
    /\ UNCHANGED <<clock, callerCtx, childCtx>>

\* goroutine k starts: agentCtx and the run
GoStart ==
    /\ scopePc.at = "launch"
    /\ childCtx' = [childCtx EXCEPT ![scopePc.k] =
           WithTimeout("agentCtx", "parallelCtx", deliberation, AgentTimeout)]
    /\ scopePc' = IF scopePc.k = MaxScopes
                  THEN [scopePc EXCEPT !.at = "wait"]
                  ELSE [scopePc EXCEPT !.k = @ + 1]
    /\ UNCHANGED <<clock, callerCtx, deliberation>>

\* the run of goroutine g returned: deferred agentCancel()
GoReturns(g) ==
    /\ scopePc.mode = "panel"
    /\ childCtx[g].running
    /\ childCtx' = Closed(g)
    /\ UNCHANGED <<clock, callerCtx, deliberation, scopePc>>

\* wg.Wait() returned, return
WaitReturns ==
    /\ scopePc.at = "wait"
    /\ \A g \in 1..MaxScopes : ~childCtx[g].running
    /\ ScopeReturn(childCtx)
    /\ UNCHANGED <<clock, callerCtx>>

\* 10 s pass: the timers whose deadline is reached fire
Tick ==
    /\ scopePc.at \notin {"idle", "returned"}
    /\ clock < MaxClock
    /\ clock' = clock + 1
    /\ deliberation' = Expire(deliberation, clock')
    /\ childCtx' = [i \in 1..MaxScopes |->
                       Inherit(Expire(childCtx[i], clock'), callerCtx, deliberation')]
    /\ UNCHANGED <<callerCtx, scopePc>>

\* the caller cancels ctx
CallerCancel ==
    /\ scopePc.at \notin {"idle", "returned"}
    /\ callerCtx = "live"
    /\ callerCtx' = "cancelled"
    /\ deliberation' = Inherit(deliberation, callerCtx', deliberation)
    /\ childCtx' = [i \in 1..MaxScopes |->
                       Inherit(childCtx[i], callerCtx', deliberation')]
    /\ UNCHANGED <<clock, scopePc>>

ScopeNext ==
    \/ ScopeEnterSmart /\ UNCHANGED <<smartVars, panelVars, appVars, streamVars, mergeVars, runnerVars>>
    \/ \E ok \in BOOLEAN : ModelReturns(ok) /\ UNCHANGED <<smartVars, panelVars, appVars, streamVars, mergeVars, runnerVars>>
    \/ \E ok \in BOOLEAN : ModeratorReturns(ok) /\ UNCHANGED <<smartVars, panelVars, appVars, streamVars, mergeVars, runnerVars>>
    \/ LoopHead /\ UNCHANGED <<smartVars, panelVars, appVars, streamVars, mergeVars, runnerVars>>
    \/ AgentReturns /\ UNCHANGED <<smartVars, panelVars, appVars, streamVars, mergeVars, runnerVars>>
    \/ LoopExit /\ UNCHANGED <<smartVars, panelVars, appVars, streamVars, mergeVars, runnerVars>>
    \/ SummaryReturns /\ UNCHANGED <<smartVars, panelVars, appVars, streamVars, mergeVars, runnerVars>>
    \/ ScopeEnterPanel /\ UNCHANGED <<smartVars, panelVars, appVars, streamVars, mergeVars, runnerVars>>
    \/ GoStart /\ UNCHANGED <<smartVars, panelVars, appVars, streamVars, mergeVars, runnerVars>>
    \/ \E g \in 1..MaxScopes : GoReturns(g) /\ UNCHANGED <<smartVars, panelVars, appVars, streamVars, mergeVars, runnerVars>>
    \/ WaitReturns /\ UNCHANGED <<smartVars, panelVars, appVars, streamVars, mergeVars, runnerVars>>
    \/ Tick /\ UNCHANGED <<smartVars, panelVars, appVars, streamVars, mergeVars, runnerVars>>
    \/ CallerCancel /\ UNCHANGED <<smartVars, panelVars, appVars, streamVars, mergeVars, runnerVars>>

SpecScope == Init /\ [][ScopeNext]_vars

(* ------------------------ transcript vocabulary ----------------------- *)

IsOk(step) == step.outcome = "ok"

IsOpinion(r) == r.MsgType = "opinion"

IsSummary(r) == r.MsgType = "summary"

\* the opinion utterance a successful step stands for
OpinionOf(step) == ChatResponse(step.id, AgentRole(step.id), step.content, 1, "opinion")

\* the opinions of the successful steps, in speaking order
Opinions(ss) ==
    LET ok == SelectSeq(ss, IsOk) IN [k \in 1..Len(ok) |-> OpinionOf(ok[k])]

IsPrefix(s, t) == Len(s) <= Len(t) /\ SubSeq(t, 1, Len(s)) = s

InRoster(id) == \E k \in 1..Len(AllAgents) : AllAgents[k] = id

Returned == pc = "returned"

(* ------------------------------- C1 ----------------------------------- *)

\* the moderator's decision names n >= 1 agents, all of them in the roster
SelectsRosterAgents ==
    /\ analyzeStep.outcome = "ok"
    /\ Len(analyzeStep.selected) >= 1
    /\ \A k \in 1..Len(analyzeStep.selected) : InRoster(analyzeStep.selected[k])

AllStepsSucceeded ==
    /\ Len(steps) = Len(analyzeStep.selected)
    /\ \A k \in 1..Len(steps) : steps[k].outcome = "ok"

SummarySucceeded == summaryStep.outcome = "ok" /\ summaryStep.text # ""

\* C1: when the moderator selects n >= 1 roster agents, every agent step
\* succeeds and the summary step succeeds with non-empty text, the call
\* returns a nil error and exactly n+2 utterances: the opening, the n
\* opinions in the moderator's selection order, the summary.
C1_FullTranscript ==
    (Returned /\ SelectsRosterAgents /\ AllStepsSucceeded /\ SummarySucceeded)
    => LET n == Len(analyzeStep.selected)
           t == ret.responses
       IN  /\ ret.err = NoError
           /\ Len(t) = n + 2
           /\ t[1].MsgType = "opening" /\ t[1].Round = 0
           /\ \A k \in 1..n :
                  /\ t[k + 1].MsgType = "opinion"
                  /\ t[k + 1].Round = 1
                  /\ t[k + 1].AgentID = analyzeStep.selected[k]
                  /\ t[k + 1].Content = steps[k].content
           /\ t[n + 2].MsgType = "summary" /\ t[n + 2].Round = 2
           /\ t[n + 2].Content = summaryStep.text

\* three distinct agents selected, all succeed, summary present
C1_Witness ==
    /\ Returned /\ SelectsRosterAgents /\ AllStepsSucceeded /\ SummarySucceeded
    /\ analyzeStep.selected = <<"a3", "a1", "a2">>
    /\ Len(ret.responses) = 5

(* ------------------------------- C2 ----------------------------------- *)

\* opening, then opinions, then at most one summary
ShapeOK(t) ==
    /\ Len(t) >= 1 => (t[1].MsgType = "opening" /\ t[1].Round = 0)
    /\ \A k \in 2..Len(t) :
           \/ t[k].MsgType = "opinion" /\ t[k].Round = 1
           \/ t[k].MsgType = "summary" /\ t[k].Round = 2 /\ k = Len(t)

\* C2: in every reachable state the transcript is the opening, then zero
\* or more opinions, then at most one summary (rounds 0, 1, 2), whatever
\* fails; and an utterance once appended is never removed or reordered.
C2_TranscriptShape ==
    /\ [](ShapeOK(responses) /\ ShapeOK(ret.responses))
    /\ [][IsPrefix(responses, responses')]_vars

\* a transcript with failures in it: one opinion missing, summary present
C2_Witness ==
    /\ Returned
    /\ Len(steps) = 3 /\ steps[2].outcome = "error"
    /\ Len(responses) = 4 /\ responses[4].MsgType = "summary"

(* ------------------------------- C3 ----------------------------------- *)

\* C3: when selected agents fail (deadline or other error) while the
\* deliberation scope stays open, each failed agent contributes nothing,
\* every later selected agent is still run, the summary step is still run
\* and the caller gets a nil error.
C3_AgentFailureSkipped ==
    (Returned /\ meetingCtx = "live" /\ analyzeStep.outcome = "ok"
        /\ Len(selectedAgents) >= 1)
    => /\ Len(steps) = Len(selectedAgents)
       /\ \A k \in 1..Len(steps) : steps[k].id = selectedAgents[k]
       /\ summaryStep.outcome \in Outcomes
       /\ ret.err = NoError
       /\ SelectSeq(ret.responses, IsOpinion) = Opinions(steps)

\* scenario B: three selected, the second exceeds its deadline
C3_Witness ==
    /\ Returned /\ meetingCtx = "live"
    /\ Len(steps) = 3
    /\ steps[1].outcome = "ok" /\ steps[2].outcome = "deadline" /\ steps[3].outcome = "ok"
    /\ Len(ret.responses) = 4
    /\ ret.responses[2].AgentID = steps[1].id
    /\ ret.responses[3].AgentID = steps[3].id
    /\ ret.responses[4].MsgType = "summary"
    /\ ret.err = NoError

(* ------------------------------- C4 ----------------------------------- *)

\* C4: when ModeratorAnalyze fails on its deadline the call returns an
\* empty transcript and ErrModeratorTimeout, an error other than the one
\* returned for any other analyze failure; no agent step was started and
\* the utterance callback was never invoked.
C4_ModeratorTimeout ==
    /\ (Returned /\ analyzeStep.outcome = "deadline")
       => /\ ret.responses = << >>
          /\ ret.err = ErrModeratorTimeout
          /\ steps = << >>
          /\ respLog = << >>
    /\ (Returned /\ analyzeStep.outcome = "error") => ret.err # ErrModeratorTimeout

\* the analyze step timed out in a call that has callbacks
C4_Witness ==
    /\ Returned /\ analyzeStep.outcome = "deadline" /\ hasCallbacks
    /\ ret.err = ErrModeratorTimeout

(* ------------------------------- C5 ----------------------------------- *)

\* the deliberation deadline fired in the agent loop, before or during the
\* run of one of the selected agents
ExpiredMidSequence ==
    \/ expiredAt.pc = "agent"
    \/ expiredAt.pc = "loop" /\ expiredAt.idx <= Len(selectedAgents)

\* steps started strictly after the deadline fired
StartedAfterExpiry ==
    IF expiredAt.pc = "agent" THEN Len(steps) - expiredAt.idx
    ELSE Len(steps) - (expiredAt.idx - 1)

\* C5: when the deliberation deadline expires mid-sequence and k < n of
\* the selected agents have spoken, the call returns the opening plus those
\* k opinions, no summary, starts no further agent step and returns
\* ErrMeetingTimeout, also when the expiry falls into the last agent's run.
C5_PartialOnExpiry ==
    (Returned /\ ExpiredMidSequence
        /\ Len(SelectSeq(ret.responses, IsOpinion)) < Len(selectedAgents))
    => /\ ret.err = ErrMeetingTimeout
       /\ ret.responses = <<Opening>> \o Opinions(steps)
       /\ summaryStep.outcome = "none"
       /\ StartedAfterExpiry = 0

(* ------------------------------- C6 ----------------------------------- *)

\* the deliberation deadline fired before the call returned and the
\* transcript lacks an opinion or the summary
CutShortByExpiry ==
    /\ Returned /\ meetingCtx = "deadline"
    /\ analyzeStep.outcome = "ok" /\ Len(selectedAgents) >= 1
    /\ \/ Len(steps) < Len(selectedAgents)
       \/ summaryStep.outcome \in {"none", "deadline", "error"}

\* C6: every step of the state machine, ModeratorSummarize included, is
\* started on an open deliberation scope, and a transcript cut short by
\* the deliberation deadline is never returned with a nil error.
C6_ExpiryChecked ==
    /\ summaryStep.ctxAtStart # "deadline"
    /\ CutShortByExpiry => ret.err = ErrMeetingTimeout

(* ------------------------------- C7 ----------------------------------- *)

SummaryMissing ==
    \/ summaryStep.outcome \in {"deadline", "error"}
    \/ summaryStep.outcome = "ok" /\ summaryStep.text = ""

\* C7: when ModeratorSummarize fails (timeout or other error) or returns
\* empty text, the call returns a nil error and the transcript as it stood
\* before the summary step, without a summary utterance, and the utterance
\* callback is not invoked for a summary.
C7_SummaryDegrades ==
    (Returned /\ SummaryMissing)
    => /\ ret.err = NoError
       /\ ret.responses = <<Opening>> \o Opinions(steps)
       /\ SelectSeq(ret.responses, IsSummary) = << >>
       /\ SelectSeq(respLog, IsSummary) = << >>

\* two opinions delivered to the callback, then the summary step times out
C7_Witness ==
    /\ Returned /\ summaryStep.outcome = "deadline" /\ hasCallbacks
    /\ Len(ret.responses) = 3 /\ Len(respLog) = 3

(* ------------------------------- C8 ----------------------------------- *)

RECURSIVE IsSubseq(_, _)
\* s can be read off t from left to right
IsSubseq(s, t) ==
    IF s = << >> THEN TRUE
    ELSE IF t = << >> THEN FALSE
    ELSE IF Head(s) = Head(t) THEN IsSubseq(Tail(s), Tail(t))
    ELSE IsSubseq(s, Tail(t))

\* number of "- name(role):content" lines in a context string
EntryCount(ctx) == Cardinality({j \in 1..Len(ctx) : ctx[j] = "- "})

\* the line a successful step leaves in the context, content included
LineOf(step) == <<"- ", AgentName(step.id), "(", AgentRole(step.id), "):", step.content, "\n\n">>

RECURSIVE LinesOf(_)
LinesOf(ss) == IF ss = << >> THEN << >> ELSE LineOf(Head(ss)) \o LinesOf(Tail(ss))

\* C8: the previous-discussion context handed to the k-th agent step
\* contains, verbatim and in speaking order, the content of every utterance
\* produced by the successful steps before it, and nothing for a step that
\* failed.
C8_ContextCarriesHistory ==
    \A k \in 1..Len(steps) :
        LET before == SelectSeq(SubSeq(steps, 1, k - 1), IsOk)
            ctx == steps[k].previousContext
        IN  /\ IsSubseq(LinesOf(before), ctx)
            /\ EntryCount(ctx) = Len(before)

\* the third agent runs after two successes with different contents, behind
\* a memory context; and after one success and one failure
C8_Witness ==
    /\ Len(steps) = 3
    /\ steps[1].outcome = "ok" /\ steps[2].outcome = "ok"
    /\ steps[1].content # steps[2].content
    /\ EntryCount(steps[3].previousContext) = 2
    /\ memoryContext = "MEM"

(* ------------------------------- C9 ----------------------------------- *)

PanelReturned == ppc = "returned"

\* C9: a deliberation that returns a nil error has a non-empty transcript:
\* the opening in smart mode, at least one agent utterance in panel mode
\* once an agent was launched, even when every launched agent failed.
C9_NoEmptySuccess ==
    /\ (Returned /\ ret.err = NoError)
       => (Len(ret.responses) >= 1 /\ ret.responses[1].MsgType = "opening")
    /\ (PanelReturned /\ pret.err = NoError /\ Len(panelAgents) >= 1)
       => Len(pret.responses) >= 1

(* ------------------------------- C10 ---------------------------------- *)

\* C10 as stated: an empty transcript is returned only for a configuration
\* error or a ModeratorAnalyze timeout.
C10_EmptyOnlyConfigOrTimeout ==
    (Returned /\ Len(ret.responses) = 0)
    => ret.err \in {ErrNoAIConfig, ErrNoAgents, ErrModeratorTimeout}

\* C10 amended: an empty transcript is returned only for a configuration
\* error, a model-creation failure or a ModeratorAnalyze failure (timeout
\* or other error); once ModeratorAnalyze has succeeded the returned
\* transcript is non-empty, whatever fails afterwards.
C10_EmptyOnlyBeforeOpening ==
    /\ (Returned /\ Len(ret.responses) = 0)
       => ret.err \in {ErrNoAIConfig, ErrNoAgents, ErrCreateModel,
                       ErrModeratorTimeout, ErrAnalyze}
    /\ (Returned /\ analyzeStep.outcome = "ok")
       => (Len(ret.responses) >= 1 /\ ret.responses[1] = Opening)

\* a failure after the opening: the deliberation deadline cut the loop
C10_Witness ==
    /\ Returned /\ ret.err = ErrMeetingTimeout
    /\ Len(ret.responses) >= 1

(* ------------------------------- C11 ---------------------------------- *)

\* the smart call saw a nil aiConfig or an empty roster
SmartConfigError == pc # "idle" /\ (aiConfig = "nil" \/ Len(AllAgents) = 0)

\* the panel call was entered with a nil aiConfig or no agents
PanelConfigError ==
    ppc # "idle" /\ (ppc = "panicked" \/ Len(panelAgents) = 0)

\* C11: at both entry points a missing provider configuration or an empty
\* roster makes the call return ErrNoAIConfig / ErrNoAgents with no
\* transcript, before model creation, any moderator or agent step and any
\* callback.
C11_ConfigErrorFirst ==
    /\ SmartConfigError
       => /\ Returned
          /\ ret.responses = << >>
          /\ ret.err = (IF aiConfig = "nil" THEN ErrNoAIConfig ELSE ErrNoAgents)
          /\ meetingCtx = "none" /\ analyzeStep = NoAnalyze /\ steps = << >>
          /\ respLog = << >> /\ progressLog = << >>
    /\ PanelConfigError
       => /\ PanelReturned
          /\ pret.responses = << >>
          /\ pret.err \in {ErrNoAIConfig, ErrNoAgents}
          /\ parallelCtx = "none"

(* ------------------------------- C13 ---------------------------------- *)

\* C13: once the deliberation's context is cancelled, no further progress
\* event (agent_done included) and no further utterance is delivered to
\* the callbacks.
C13_SilentAfterCancel ==
    [][meetingCtx = "cancelled" => (progressLog' = progressLog /\ respLog' = respLog)]_vars

(* ------------------------------- C12 ---------------------------------- *)

\* the invocation's deliberation is registered, not cancelled and not finished
LiveMeeting(c) == callPc[c] \in {"resolve", "running"} /\ callCtx[c] = "live"

\* C12: for every topic, at most one deliberation is live at any time.
C12_OneLivePerTopic ==
    \A t \in Topics : Cardinality({c \in Calls : callTopic[c] = t /\ LiveMeeting(c)}) <= 1

(* ------------------------------- C14 ---------------------------------- *)

\* some SendMeetingMessage invocation for the topic has not returned yet
InFlight14(t) == \E c \in Calls : callTopic[c] = t /\ callPc[c] \notin {"idle", "done"}

\* the step is CancelMeeting(t), taken with nothing in flight for t or
\* directly after another CancelMeeting(t)
RepeatedCancel(t) ==
    /\ lastOp'.op = "CancelMeeting" /\ lastOp'.topic = t
    /\ \/ ~InFlight14(t)
       \/ (lastOp.op = "CancelMeeting" /\ lastOp.topic = t)

\* C14: CancelMeeting for a topic with nothing in flight, or repeated right
\* after a cancel of the same topic, invokes no cancel function and leaves
\* the registry and every invocation's context and position unchanged.
C14_CancelIdempotent ==
    [][\A t \in Topics :
          RepeatedCancel(t)
          => /\ lastOp'.cancels = 0
             /\ meetingCancels' = meetingCancels
             /\ callCtx' = callCtx
             /\ callPc' = callPc]_vars

\* a second CancelMeeting directly after one that cancelled a running
\* deliberation, with another topic's deliberation still live
C14_Witness ==
    /\ lastOp.op = "CancelMeeting" /\ lastOp.topic = "sh600519"
    /\ lastOp.repeat /\ lastOp.cancels = 0
    /\ \E c \in Calls : callTopic[c] = "sh600519" /\ callCtx[c] = "cancelled"
                        /\ callPc[c] = "running"
    /\ \E c \in Calls : callTopic[c] = "sz000001" /\ LiveMeeting(c)

(* ------------------------- stream vocabulary -------------------------- *)

IsPartial(item) == item.kind = "partial"
IsFinal(item) == item.kind = "final"
IsErrorItem(item) == item.kind = "error"
IsVisible(part) == ~part.thought /\ ~part.isCall
IsCallPart(part) == part.isCall

RECURSIVE ConcatTexts(_)
\* the texts of a list of parts, concatenated
ConcatTexts(parts) ==
    IF parts = << >> THEN << >> ELSE Head(parts).text \o ConcatTexts(Tail(parts))

\* the visible (non-thinking) text of a response
VisibleText(item) == ConcatTexts(SelectSeq(item.parts, IsVisible))

RECURSIVE PartialTexts(_)
\* the text fragments of the partial responses of a list of items, in order
PartialTexts(items) ==
    IF items = << >> THEN << >>
    ELSE (IF IsPartial(Head(items)) THEN ConcatTexts(Head(items).parts) ELSE << >>)
         \o PartialTexts(Tail(items))

\* the last item the consumer received
LastEmitted == emitted[Len(emitted)]

\* the tool-call blocks of the final response
FinalCalls == SelectSeq(LastEmitted.parts, IsCallPart)

(* ------------------------------- C15 ---------------------------------- *)

\* C15: after a yield call has returned false, processStream and its
\* handlers make no further yield call, so the stream never reaches the
\* panic of a yield into a stopped consumer.
C15_NoYieldAfterStop == spc # "panicked"

(* ------------------------------- C16 ---------------------------------- *)

\* C16: when the stream completes without an error event, the visible text
\* of the final response is the concatenation, in emission order, of the
\* fragments of the partial responses, and each partial carries one fragment.
C16_FinalTextIsPartials ==
    spc = "done"
    => /\ VisibleText(LastEmitted) = PartialTexts(emitted)
       /\ \A k \in 1..Len(emitted) :
              IsPartial(emitted[k])
              => /\ Len(emitted[k].parts) = 1
                 /\ emitted[k].parts[1].text = <<textContent[k]>>

\* two different fragments and thinking text, all consumed
C16_Witness ==
    /\ spc = "done"
    /\ PartialTexts(emitted) = <<"Hel", "lo">>
    /\ thinkingContent # << >>

(* ------------------------------- C17 ---------------------------------- *)

\* C17: a stream that ends without an error event, read by a consumer that
\* keeps consuming, gives exactly one final response; it comes after every
\* partial response, no final response is emitted before the stream ends,
\* and nothing is emitted after it.
C17_OneFinalLast ==
    /\ [](/\ spc = "done"
             => /\ emitted # << >>
                /\ IsFinal(LastEmitted)
                /\ \A k \in 1..(Len(emitted) - 1) : IsPartial(emitted[k])
          /\ spc = "scan" => \A k \in 1..Len(emitted) : IsPartial(emitted[k])
          /\ spc = "panicked" => consumerStopped)
    /\ [][spc = "done" => emitted' = emitted]_vars

\* three partial responses, then the final response
C17_Witness ==
    /\ spc = "done"
    /\ Len(emitted) = 4
    /\ \A k \in 1..3 : IsPartial(emitted[k])
    /\ IsFinal(LastEmitted)

(* ------------------------------- C18 ---------------------------------- *)

\* C18: an error event ends the stream: the provider's error is the last
\* item the consumer gets, processStream has returned, and no partial or
\* final response follows it.
C18_ErrorTerminates ==
    /\ \A k \in 1..Len(emitted) :
           IsErrorItem(emitted[k])
           => /\ k = Len(emitted)
              /\ spc \in {"errored", "failed"}
              /\ \A j \in 1..(k - 1) : IsPartial(emitted[j])
    /\ spc = "errored"
       => /\ emitted # << >>
          /\ LastEmitted \in {ErrorItem(TRUE), ErrorItem(FALSE)}

\* the error arrives after a partial response, with lines left on the wire
C18_Witness ==
    /\ spc = "errored"
    /\ Len(emitted) = 2
    /\ IsPartial(emitted[1])
    /\ LastEmitted = ErrorItem(TRUE)
    /\ nData < MaxData

(* ------------------------------- C19 ---------------------------------- *)

\* block indices that were started with kind tool_use
StartedIndices == {i \in Indices : toolStarts[i] # << >>}

\* orders in which the started indices can be listed
StartedOrders ==
    {o \in SeqsUpTo(Indices, Cardinality(Indices)) :
        /\ Len(o) = Cardinality(StartedIndices)
        /\ {o[k] : k \in 1..Len(o)} = StartedIndices}

\* the index was started once and all its fragments came after the start
StartedOnceFirst(i) == Len(toolStarts[i]) = 1 /\ i \notin early

\* the tool call carries the id and name of the index's (last) start
CarriesBlock(call, i) ==
    /\ call.id = toolStarts[i][Len(toolStarts[i])]
    /\ call.name = NameOf(call.id)

\* {"symbol":"sh600519"}
SymbolObject ==
    {<< <<"s", "y", "m", "b", "o", "l">>,
        <<"s", "h", "6", "0", "0", "5", "1", "9">> >>}

\* C19: the final response has exactly one tool-call block for each index
\* started with kind tool_use, with that block's id and name, and its
\* arguments are the parse of all input_json_delta fragments of the index
\* in arrival order.
C19_ToolCallPerIndex ==
    spc = "done"
    => \E o \in StartedOrders :
           /\ Len(FinalCalls) = Len(o)
           /\ \A k \in 1..Len(o) :
                  /\ CarriesBlock(FinalCalls[k], o[k])
                  /\ FinalCalls[k].args = parseInputArgs(wireArgs[o[k]])

\* C19 amended: exactly one tool-call block per started index, with the id
\* and name of the index's last start; for an index started once whose
\* fragments all arrive after the start, the arguments are the parse of its
\* fragments in arrival order, and no other index's fragment is in them.
C19_ToolCallPerStartedBlock ==
    spc = "done"
    => \E o \in StartedOrders :
           /\ Len(FinalCalls) = Len(o)
           /\ \A k \in 1..Len(o) :
                  /\ CarriesBlock(FinalCalls[k], o[k])
                  /\ StartedOnceFirst(o[k])
                     => FinalCalls[k].args = parseInputArgs(wireArgs[o[k]])

\* scenario D: the three fragments give {"symbol":"sh600519"} exactly once
C19_Witness ==
    /\ spc = "done"
    /\ \E i \in Indices : StartedOnceFirst(i) /\ wireArgs[i] = Frag1 \o Frag2 \o Frag3
    /\ Len(FinalCalls) = 1
    /\ FinalCalls[1].args = SymbolObject

(* ------------------------------- C20 ---------------------------------- *)

\* indices whose builder holds arguments that do not parse
Unparsed == {i \in Indices : toolCallsMap[i].present /\ Unmarshal(toolCallsMap[i].args).err}

\* C20: a tool call whose arguments do not parse is in the final response
\* with an empty argument object; the text, the other tool calls, the
\* finish reason and the usage are what the buffers hold, as for a stream
\* whose fragments parse.
C20_ParseFailureIsolated ==
    (spc = "done" /\ Unparsed # {})
    => /\ IsFinal(LastEmitted)
       /\ \E o \in Orders :
              /\ Len(FinalCalls) = Len(o)
              /\ \A k \in 1..Len(o) :
                     /\ FinalCalls[k].id = toolCallsMap[o[k]].id
                     /\ FinalCalls[k].name = toolCallsMap[o[k]].name
                     /\ FinalCalls[k].args =
                            (IF o[k] \in Unparsed THEN {}
                             ELSE Unmarshal(toolCallsMap[o[k]].args).args)
       /\ VisibleText(LastEmitted) = PartialTexts(emitted)
       /\ LastEmitted.finish = finishReason
       /\ LastEmitted.usage = usageMetadata

\* a tool call with the fragment {"sym only, next to text and a second call
C20_Witness ==
    /\ spc = "done"
    /\ \E i \in Unparsed : toolCallsMap[i].args = Frag1
    /\ Len(FinalCalls) = 2
    /\ VisibleText(LastEmitted) # << >>

(* ------------------------------- C21 ---------------------------------- *)

RECURSIVE ConcatBlocks(_)
\* the blocks of a message list, concatenated
ConcatBlocks(messages) ==
    IF messages = << >> THEN << >>
    ELSE Head(messages).Content \o ConcatBlocks(Tail(messages))

\* C21: the merged list carries the blocks of the raw list in the same
\* order, none dropped, duplicated or reordered, and no two adjacent merged
\* messages have the same role.
C21_MergeKeepsBlocks ==
    mpc = "done"
    => /\ ConcatBlocks(merged) = ConcatBlocks(raw)
       /\ \A k \in 1..(Len(merged) - 1) : merged[k].Role # merged[k + 1].Role

\* three raw messages of which the first two have one role
C21_Witness ==
    /\ mpc = "done"
    /\ Len(raw) = 3 /\ Len(merged) = 2
    /\ raw[1].Role = raw[2].Role
    /\ raw[1].Content # raw[2].Content

(* ------------------------------- C22 ---------------------------------- *)

\* the finish reason the provider mapping gives for the last stop reason
\* on the wire; "" is a stream that never set one
ExpectedFinish(stopReason) ==
    CASE stopReason = "" -> "STOP"
      [] stopReason \in {"end_turn", "stop_sequence", "tool_use"} -> "STOP"
      [] stopReason = "max_tokens" -> "MAX_TOKENS"
      [] OTHER -> "FINISH_REASON_UNSPECIFIED"

\* C22: the final response's finish reason is stop for end_turn,
\* stop_sequence and tool_use, max_tokens for max_tokens, unspecified for
\* an unrecognized stop reason, and stop when no stop reason was ever set.
C22_FinishReasonMapping ==
    spc = "done" => LastEmitted.finish = ExpectedFinish(observed.stop)

(* ------------------------------- C23 ---------------------------------- *)

\* C23: the final response reports the prompt-token count of message_start,
\* and the output-token count and the finish reason of the last
\* message_delta that carried one, also when message_start had no usage.
C23_UsageLastWins ==
    spc = "done"
    => /\ LastEmitted.usage.prompt = (IF observed.prompt THEN 7 ELSE 0)
       /\ LastEmitted.usage.candidates = (IF observed.output THEN 3 ELSE 0)
       /\ observed.stop # ""
          => LastEmitted.finish \in {convertStopReason(observed.stop), "STOP"}

(* ------------------------------- C24 ---------------------------------- *)

\* C24: a malformed data line of a non-error event type emits nothing,
\* leaves the text and thinking buffers, the tool-call builders, the usage
\* and the finish reason as they were, and the scanner loop goes on with
\* the event type reset as after any other data line.
C24_MalformedSkipped ==
    [][observed'.malformed
       => /\ UNCHANGED <<textContent, thinkingContent, toolCallsMap, blockTypes,
                         usageMetadata, finishReason, emitted, consumerStopped,
                         runContent, runLog>>
          /\ spc' = "scan"
          /\ currentEventType' = ""]_vars

\* a malformed line met with text, a tool-call builder and usage collected
C24_Witness ==
    /\ observed.malformed
    /\ spc = "scan"
    /\ textContent # << >>
    /\ \E i \in Indices : toolCallsMap[i].present
    /\ usageMetadata.set

(* ------------------------------- C25 ---------------------------------- *)

\* the text holds a thinking fragment
HasThinking(text) == \E k \in 1..Len(text) : text[k] \in ThinkingFragments

\* C25: no partial response carries thinking text, the final response holds
\* thinking text only in a part flagged as thought, and neither the text
\* the runner collects nor any of its progress events holds thinking text.
C25_ThinkingHidden ==
    /\ \A k \in 1..Len(emitted) :
           \A j \in 1..Len(emitted[k].parts) :
               HasThinking(emitted[k].parts[j].text)
               => IsFinal(emitted[k]) /\ emitted[k].parts[j].thought
    /\ Len(SelectSeq(emitted, IsPartial)) <= Len(textContent)
    /\ ~HasThinking(runContent)
    /\ \A k \in 1..Len(runLog) : ~HasThinking(runLog[k].Detail)

\* a final response made of thinking text only: the runner's fallback reads
\* it with its content still empty
C25_Witness ==
    /\ spc = "done"
    /\ thinkingContent # << >>
    /\ textContent = << >>
    /\ Len(LastEmitted.parts) = 1
    /\ runContent = << >>

(* ------------------------------- C26 ---------------------------------- *)

\* the events the runner's loop body looked at
Handled == SelectSeq(received, LAMBDA e : e # NilEvent)

\* the run returned without error
RunReturned == rpc = "returned" /\ rret.err = NoError

\* C26: a run that got no partial event and one non-partial response
\* returns that response's visible text, all its text parts concatenated.
C26_FallbackVerbatim ==
    (/\ RunReturned
     /\ Len(Handled) = 1
     /\ IsFinal(Handled[1]))
    => rret.text = VisibleText(Handled[1])

(* ------------------------------- C27 ---------------------------------- *)

RECURSIVE VisiblePartialTexts(_)
\* the visible text fragments of the partial events, in order
VisiblePartialTexts(events) ==
    IF events = << >> THEN << >>
    ELSE (IF IsPartial(Head(events)) THEN VisibleText(Head(events)) ELSE << >>)
         \o VisiblePartialTexts(Tail(events))

\* the run got text in a partial event and text in a non-partial event
BothPayloads ==
    /\ \E k \in 1..Len(received) :
           IsPartial(received[k]) /\ VisibleText(received[k]) # << >>
    /\ \E k \in 1..Len(received) :
           IsFinal(received[k]) /\ VisibleText(received[k]) # << >>

\* C27: when partial and non-partial text both arrive, the returned text is
\* the concatenation of the partial fragments only, whichever came first.
C27_PartialWins ==
    (RunReturned /\ BothPayloads) => rret.text = VisiblePartialTexts(received)

(* ------------------------------- C28 ---------------------------------- *)

\* the agent ids of a transcript, in transcript order
AgentsOf(rs) == [i \in 1..Len(rs) |-> rs[i].AgentID]

\* goroutine g's run succeeded and its response was appended
Succeeded(g) == gpc[g].st = "done"

\* the agents whose runs succeeded, in the order their runs ended
FinishOrder ==
    LET f == SelectSeq(finished, Succeeded)
    IN  [i \in 1..Len(f) |-> panelAgents[f[i]]]

\* C28: in panel mode the utterances of the returned transcript are in the
\* order in which the agents' runs finished, under every interleaving of
\* the agent goroutines.
C28_FinishOrder ==
    (PanelReturned /\ pret.err = NoError)
    => AgentsOf(pret.responses) = FinishOrder

(* ------------------------------- C29 ---------------------------------- *)

\* the positions of agent id in a transcript
UtterancesOf(rs, id) == {i \in 1..Len(rs) : rs[i].AgentID = id}

\* C29: in panel mode the returned transcript has exactly one utterance,
\* with the run's content, for each launched agent whose run succeeded and
\* none for an agent whose run failed or timed out, and it is returned only
\* after every agent goroutine has ended.
C29_OnePerSuccess ==
    (PanelReturned /\ pret.err = NoError)
    => /\ \A g \in 1..Len(panelAgents) : gpc[g].st \in {"done", "failed"}
       /\ \A g \in 1..Len(panelAgents) :
             LET own == UtterancesOf(pret.responses, panelAgents[g])
             IN  IF Succeeded(g)
                 THEN /\ Cardinality(own) = 1
                      /\ \A i \in own : pret.responses[i].Content = gpc[g].content
                 ELSE own = {}
       /\ Len(pret.responses) =
             Cardinality({g \in 1..Len(panelAgents) : Succeeded(g)})

\* three agents were launched, two succeeded and one failed, and the call
\* returned the two utterances
C29_Witness ==
    /\ PanelReturned /\ pret.err = NoError
    /\ Len(panelAgents) = 3
    /\ Cardinality({g \in 1..3 : Succeeded(g)}) = 2
    /\ \E g \in 1..3 : gpc[g].st = "failed"
    /\ Len(pret.responses) = 2

(* ------------------------------- C30 ---------------------------------- *)

\* C30: in panel mode the input of every agent's run is the agent's own
\* configuration and the request's stock, query, quoted reply content and
\* position, whatever the other agents have output and in whatever order
\* they finished.
C30_NoCrossContext ==
    \A g \in 1..Len(gpc) :
        gpc[g].st # "unlaunched"
        => gpc[g].input = [cfg |-> panelAgents[g],
                           stock |-> panelReq.Stock,
                           query |-> panelReq.Query,
                           replyContent |-> panelReq.ReplyContent,
                           position |-> panelReq.Position]

\* a request with quoted reply content: the first agent's utterance is
\* already collected, the second agent has finished after it and the third
\* agent's run is in progress
C30_Witness ==
    /\ Len(gpc) = 3
    /\ panelReq.ReplyContent # ""
    /\ gpc[3].st = "running"
    /\ gpc[2].st = "lock"
    /\ AgentsOf(presponses) = <<"a1">>
    /\ gpc[3].input.replyContent = panelReq.ReplyContent

(* ------------------------------- C31 ---------------------------------- *)

\* the child scopes that have been opened
OpenedScopes == {i \in 1..MaxScopes : childCtx[i].kind # "none"}

\* C31: every model-creation, moderator and agent scope is derived from the
\* deliberation scope, its deadline is never later than the deliberation
\* deadline, and no step is running under a scope that is still open once
\* the deliberation scope has expired or been cancelled.
C31_ScopesNested ==
    \A i \in OpenedScopes :
        /\ childCtx[i].parent = deliberation.kind
        /\ childCtx[i].deadline <= deliberation.deadline
        /\ (childCtx[i].running /\ deliberation.err # "live")
           => childCtx[i].err # "live"

\* an agent step opened less than AgentTimeout before the deliberation
\* deadline is still running when the deliberation scope expires, and its
\* scope is done with it
C31_Witness ==
    /\ scopePc.mode = "smart"
    /\ deliberation.err = "deadline"
    /\ childCtx[1].kind = "agentCtx"
    /\ childCtx[1].running
    /\ childCtx[1].opened + AgentTimeout > deliberation.deadline
    /\ childCtx[1].deadline = deliberation.deadline
    /\ childCtx[1].err = "deadline"

(* ------------------------------- C32 ---------------------------------- *)

\* the background memory task has been started
MemoryStarted == memoryTask # "none"

\* the call has returned a nil error and a transcript that ends with the
\* non-empty summary of a Summarize step begun on an open deliberation scope
CompletedWithSummary ==
    /\ Returned /\ ret.err = NoError
    /\ analyzeStep.outcome = "ok"
    /\ summaryStep.ctxAtStart = "live"
    /\ summaryStep.outcome = "ok" /\ summaryStep.text # ""
    /\ Len(ret.responses) >= 1
    /\ ret.responses[Len(ret.responses)] =
           ChatResponse("moderator", "host", summaryStep.text, 2, "summary")

\* C32: the background memory task is started only when the smart-mode
\* call completes with a non-empty summary appended, never on a timeout,
\* moderator failure or summary failure return; the call has returned
\* while the task is still running, and the end of the task, failed or
\* not, changes neither the returned transcript and error nor the
\* callbacks delivered.
C32_MemoryAfterSummary ==
    /\ [](MemoryStarted => CompletedWithSummary)
    /\ [][memoryTask' # memoryTask /\ memoryTask = "started"
             => ret' = ret /\ respLog' = respLog /\ progressLog' = progressLog]_vars

\* the call has returned its full transcript and the memory task, started
\* on the way out, has failed
C32_Witness ==
    /\ Returned /\ ret.err = NoError
    /\ memoryTask = "failed"
    /\ Len(ret.responses) = 4

(* ------------------------------- C33 ---------------------------------- *)

\* C33: with a response callback set, the payloads delivered so far are
\* the utterances appended so far, each once and in append order, in every
\* state of the call; a returned transcript is the sequence of payloads
\* delivered.
C33_CallbackPerUtterance ==
    hasCallbacks
    => /\ respLog = responses
       /\ (Returned /\ ret.responses # << >>) => respLog = ret.responses

\* a call with callbacks has returned the opening, two opinions and the
\* summary, and as many payloads were delivered
C33_Witness ==
    /\ hasCallbacks
    /\ Returned
    /\ Len(ret.responses) = 4
    /\ IsSummary(ret.responses[4])
    /\ Len(respLog) = 4

(* ------------------------------- C34 ---------------------------------- *)

\* C34: a panel call whose deliberation deadline expired while agent runs
\* were in progress returns every utterance collected and a non-nil
\* timeout error.
C34_PanelTimeoutTagged ==
    (PanelReturned /\ inFlight # {})
    => /\ pret.responses = presponses
       /\ pret.err # NoError

(* ------------------------------- C35 ---------------------------------- *)

\* every agent_start of the log is followed at once by the agent_done of
\* the same speaker, except a last agent_start whose step is in progress
WellNested(log) ==
    \A k \in 1..Len(log) :
        IF k % 2 = 1
        THEN log[k].Type = "agent_start"
        ELSE log[k].Type = "agent_done" /\ log[k].AgentID = log[k - 1].AgentID

\* the speakers of the steps started so far: the moderator's analysis, the
\* agents' steps, the moderator's summary
StartedSpeakers ==
    (IF analyzeStep.outcome # "none" THEN <<"moderator">> ELSE << >>)
    \o [k \in 1..Len(steps) |-> steps[k].id]
    \o (IF summaryStep.outcome # "none" THEN <<"moderator">> ELSE << >>)

\* the speakers of the agent_start events delivered
StartsOf(log) ==
    LET starts == SelectSeq(log, LAMBDA e : e.Type = "agent_start")
    IN  [k \in 1..Len(starts) |-> starts[k].AgentID]

\* a step is in progress
StepOpen == pc \in {"analyze", "agent", "summarize"}

RunnerEventsInsideRun ==
    [][runLog' # runLog => rpc = "running" /\ rpc' = "running"]_vars

(* ------------------------------- C36 ---------------------------------- *)

\* invocation c holds the most recently started deliberation of its topic:
\* it is registered, in flight and not cancelled, and no invocation that
\* entered later for the same topic has registered
MostRecentLive(c) ==
    /\ LiveMeeting(c)
    /\ \A b \in Calls : (b > c /\ callTopic[b] = callTopic[c]) => callCtx[b] = "none"

\* C36: while the most recently started deliberation of a topic is in
\* flight and not cancelled, the registry maps the topic to it, so that
\* CancelMeeting(topic) cancels it; the deferred cleanup of an earlier
\* invocation for the topic does not remove its entry.
C36_LiveStaysCancellable ==
    \A c \in Calls : MostRecentLive(c) => meetingCancels[callTopic[c]] = c

(* ------------------------------- C37 ---------------------------------- *)

\* invocation c has registered and not yet returned
Unreturned(c) == callPc[c] \in {"resolve", "running", "cleanup"}

\* C37: every entry of meetingCancels was registered by an invocation for
\* that topic that has not yet returned, and a topic with no invocation in
\* flight has no entry.
C37_NoStaleHandle ==
    \A t \in Topics :
        /\ meetingCancels[t] # 0
           => callTopic[meetingCancels[t]] = t /\ Unreturned(meetingCancels[t])
        /\ (\A c \in Calls : callTopic[c] = t => callPc[c] \in {"idle", "done"})
           => meetingCancels[t] = 0

\* two invocations for one topic have registered and returned, a third is
\* registered and running, and the topic's entry is the third's
C37_Witness ==
    /\ callTopic = [c \in Calls |-> "sh600519"]
    /\ callPc[1] = "done" /\ callPc[2] = "done" /\ callPc[3] = "running"
    /\ callCtx[1] # "none" /\ callCtx[2] # "none"
    /\ meetingCancels["sh600519"] = 3

(* ------------------------------- C38 ---------------------------------- *)

\* C38: ErrMeetingTimeout is returned only when the deliberation deadline
\* has expired, never for a deliberation scope closed by a cancellation,
\* and ErrModeratorTimeout only when the moderator's Analyze step ended
\* with a deadline error.
C38_TimeoutTruthful ==
    Returned
    => /\ ret.err = ErrMeetingTimeout => meetingCtx = "deadline"
       /\ ret.err = ErrModeratorTimeout => analyzeStep.outcome = "deadline"

(* ------------------------------- C39 ---------------------------------- *)

\* the steps in which agent id spoke or was asked to speak
StepsOf(id) == {k \in 1..Len(steps) : steps[k].id = id}

\* C39: the speakers are the moderator's selected ids, in the moderator's
\* order, that the roster knows; every opinion comes from a roster agent;
\* no roster agent gets a second step, also when the moderator lists its
\* id twice; an empty selection after filtering returns the opening alone
\* with a nil error, without any agent or summary step.
C39_SpeakersFiltered ==
    analyzeStep.outcome = "ok"
    => /\ selectedAgents = SelectSeq(analyzeStep.selected, InRoster)
       /\ \A k \in 1..Len(responses) :
             IsOpinion(responses[k]) => InRoster(responses[k].AgentID)
       /\ \A id \in AgentIDs : Cardinality(StepsOf(id)) <= 1
       /\ selectedAgents = << >>
          => /\ Returned /\ ret = [responses |-> <<Opening>>, err |-> NoError]
             /\ steps = << >> /\ summaryStep.outcome = "none"

(* --------------------- termination of a deliberation ------------------ *)

\* the steps of RunSmartMeetingWithCallback that the function itself or a
\* child call under its own timeout scope takes: the model creation under
\* modelCtx, the moderator call under moderatorCtx, the loop head, the
\* agent runs under agentCtx and the summary under summaryCtx
SmartStep ==
    /\ \/ \E ok \in BOOLEAN : CreateModel(ok)
       \/ \E o \in {"deadline", "error"} : AnalyzeFailed(o)
       \/ \E sel \in SeqsUpTo(AgentIDs, MaxSel) : AnalyzeSucceeded(sel)
       \/ LoopTimeout
       \/ AgentStart
       \/ \E o \in {"deadline", "error"} : AgentFailed(o)
       \/ \E c \in Contents :
              pc = "agent" /\ c = TextOf(selectedAgents[idx]) /\ AgentSucceeded(c)
       \/ SummarizeStart
       \/ \E o \in {"deadline", "error"} : SummarizeFailed(o)
       \/ \E s \in Summaries : SummarizeSucceeded(s)
    /\ UNCHANGED <<panelVars, appVars, streamVars, mergeVars, runnerVars, scopeVars>>

\* smart mode with its steps returning: the caller thread runs whenever it
\* can, and a child call returns once its scope is done
SpecLive == Init /\ [][Next]_vars /\ WF_vars(SmartStep)

\* the steps of the caller thread of SendMessage / runAgentsParallel: the
\* model creation, the launch loop and the return from wg.Wait()
PanelStep ==
    /\ \/ \E ok \in BOOLEAN : PanelCreateModel(ok)
       \/ Launch
       \/ LaunchDone
       \/ WaitDone
    /\ UNCHANGED <<smartVars, appVars, streamVars, mergeVars, runnerVars, scopeVars>>

\* the steps of agent goroutine g: the return of its run under agentCtx,
\* then the locked append
GoStep(g) ==
    /\ \/ \E o \in {"deadline", "error"} : GoFailed(g, o)
       \/ \E c \in Contents :
              g \in 1..Len(panelAgents) /\ c = TextOf(panelAgents[g]) /\ GoSucceeded(g, c)
       \/ GoLock(g)
       \/ GoLoad(g)
       \/ GoAppend(g)
       \/ GoUnlock(g)
    /\ UNCHANGED <<smartVars, appVars, streamVars, mergeVars, runnerVars, scopeVars>>

\* panel mode under the Go scheduler: the caller thread and every agent
\* goroutine run whenever they can
SpecPanelLive ==
    Init /\ [][PanelNext]_vars /\ WF_vars(PanelStep)
         /\ \A g \in 1..MaxPanel : WF_vars(GoStep(g))

(* ------------------------------- C40 ---------------------------------- *)

\* every launched agent goroutine of the panel call has ended
AllTasksFinished ==
    wg = 0 /\ \A g \in 1..Len(gpc) : gpc[g].st \in {"unlaunched", "failed", "done"}

\* C40: with every child step returning and the goroutines scheduled
\* fairly, a call of RunSmartMeetingWithCallback and a call of SendMessage
\* each end in a return to the caller, and SendMessage has returned only
\* when every goroutine it launched has ended.
C40_Terminates ==
    /\ (pc # "idle") ~> Returned
    /\ (ppc # "idle") ~> PanelReturned
    /\ [](PanelReturned => AllTasksFinished)

\* the smart-mode part of C40
SmartTerminates == (pc # "idle") ~> Returned

\* the part of C40 for panel calls that were given a configuration
ConfiguredPanelTerminates ==
    /\ (ppc \notin {"idle", "panicked"}) ~> PanelReturned
    /\ [](PanelReturned => AllTasksFinished)
====
